---- MODULE Spec2Model ----
(***************************************************************************)
(* Harbor: a build-pipeline orchestrator.  Units of work (workers and      *)
(* plugins) subscribe to named hooks of the TaskManager; Harbor.init       *)
(* publishes the requested hooks and aggregates the completion signals.    *)
(*                                                                         *)
(* Several specifications share this module:                              *)
(*   Spec       the hook registry and the publish engine (TaskManager),    *)
(*              fed by Harbor.mount and by BaseService.resolve/reject      *)
(*   SpecJs     one invocation of JsOptimizer.init                         *)
(*   SpecSgc    one invocation of StyleguideCompiler.init                  *)
(*   SpecSgh    one invocation of StyleguideHelper.init                    *)
(*   SpecGate   the environment gate of one BaseService unit               *)
(*   SpecHarbor one run of Harbor.init over the registry and the engine    *)
(*   SpecMount  Harbor.mount over the units of one category                *)
(*   SpecPostcss one invocation of PostCssCompiler.init                    *)
(*   SpecService calls of BaseService.resolve and reject                   *)
(*   SpecLegacy one invocation of Harbor.init of bin/Harbor.js             *)
(*   SpecSetup  one invocation of StyleguideCompiler.setupMain             *)
(*   SpecHelper calls of StyleguideHelper.useTitle and useAlias            *)
(*   SpecBuilder one call of StyleguideCompiler.extendBuilder              *)
(*   SpecEntry  one call of BaseService.defineEntry                        *)
(* services/TaskManager.js is not part of the available sources: the       *)
(* registry and the publish engine are modelled from sections 3, 4.1, 4.2  *)
(* and 7 of the specification.                                             *)
(***************************************************************************)
EXTENDS Integers, Sequences, FiniteSets, TLC

VARIABLES
  \* ---- TaskManager (hook registry and publish engine)
  subs,        \* category -> sequence of subscriptions, in registration order
  hookMap,     \* category -> hook name -> sequence of subscribed unit names
  err,         \* the error that aborted the run, or "none"
  pubState,    \* "idle", "running", "returned" or "aborted"
  pubCat,      \* category of the current publish cycle
  pubReq,      \* requested hook names of the current publish cycle
  matched,     \* unit names the current cycle resolved, in invocation order
  invoked,     \* unit -> number of handler invocations in the current cycle
  verb,        \* unit -> the first signalling verb the unit used in the cycle
  sigCount,    \* unit -> number of signals the unit sent in the current cycle
  completed,   \* PublishResult.completed of the current cycle
  exceptions,  \* PublishResult.exceptions of the current cycle
  \* ---- the unit under study (SpecJs, SpecSgc, SpecSgh)
  sent,        \* the TaskManager.resolve calls the unit has made, in order
  \* ---- JsOptimizer
  jsEntry,     \* this.entry: whether it is defined, and the number of paths
               \* of each of its lists
  jsPc,        \* position of init: "start", "awaiting", "done", "crashed"
  jsFile,      \* <<cwd index, path index>> -> state of that path's promise
  \* ---- StyleguideCompiler
  sgcEnv,      \* this.environment.THEME_ENVIRONMENT
  sgcPc,       \* position of init: "start" or "launched"
  sgcMain,     \* main.cjs: "unwritten", "pending" or "written"
  sgcHasEntry, \* whether this.config.entry is an object
  sgcStories,  \* number of stories setupMain found
  sgcPrev,     \* number of files of a previous static build
  sgcChild,    \* the child process: "none", "running", "failed", "exited"
  sgcErrSeen,  \* whether the child emitted 'error'
  sgcAsset,    \* asset index -> "idle", "mkdir", "copying", "copied", "stuck"
  sgcSync,     \* synchronizeAssets: "idle", "running", "done"
  \* ---- StyleguideHelper
  shEntry,     \* this.entry: whether it is defined, and the number of
               \* sources of each of its lists
  shPc,        \* position of init: "start", "awaiting", "done", "threw"
  shStory,     \* <<entry index, source index>> -> state of that story's write
  shDone,      \* entry index -> whether setupInitialStories called done()
  \* ---- BaseService (the environment gate of one unit)
  gOptions,    \* the options argument of the constructor
  thisOptions, \* this.options.acceptedEnvironments after defineOptions
  gEnv,        \* this.environment.THEME_ENVIRONMENT
  gTooling,    \* whether this.tooling holds the TaskManager
  gHandler,    \* "unsubscribed", or what subscribe did: "none", "init", "stub"
  gPublishes,  \* number of publishes of the unit's hook so far
  gInitCalls,  \* number of invocations of init
  gStubCalls,  \* number of invocations of the stub
  gPending,    \* invocations of init that have not signalled yet
  gSubEnv,     \* THEME_ENVIRONMENT as initIfAccepted read it in subscribe
  gPubEnv,     \* THEME_ENVIRONMENT at the latest publish
  \* ---- Harbor (the run coordinator)
  hEnv,        \* this.env, what the constructor kept of Environment.define()
  argv,        \* this.Argv.args: task, customArgs and the other arguments
  hPc,         \* position of Harbor.init
  trace,       \* the mounts, publishes and validations of the run, in order
  validated,   \* what validateResult saw and did, one record per call
  \* ---- Harbor.mount, call by call
  mHooks,      \* unit -> the hook its configuration declares
  mCat,        \* the category of the mounted instances
  mIdx,        \* index of the instance mount is at
  mStep,       \* index of the call mount makes next for that instance
  calls,       \* the calls mount has made on the handlers, in order
  mPub,        \* whether the publish of the category has begun
  \* ---- PostcssCompiler
  pcEntry,     \* this.config.entry: its kind, and the number of files the
               \* glob of each base directory matches
  pcPc,        \* position of init: "start", "running" or "threw"
  pcPromise,   \* the promise init returned: "pending", "resolved", "rejected"
  pcCb,        \* number of calls of the callback of init
  pcQueue,     \* the counter of init
  pcDir,       \* base directory -> "idle", "awaiting" or "done"
  pcCwdQueue,  \* base directory -> the counter of its processCwd
  pcCwdCb,     \* base directory -> calls of the callback of its processCwd
  pcFile,      \* <<directory, file>> -> state of that file
  \* ---- BaseService.resolve and reject, called directly
  svName,      \* this.name
  svTooling,   \* this.tooling: "none", "noResolve" or "full"
  svOps,       \* the methods called so far
  svWarnings,  \* number of Console.warning calls
  \* ---- Harbor.init of bin/Harbor.js
  lgTasks,     \* the names in the task argument, split at the commas
  lgPc,        \* "start", or "looped" once forEach has returned
  lgLog,       \* the starts and the ends of the task functions, in order
  lgStage,     \* index in lgTasks -> the await a running task is at
  \* ---- StyleguideCompiler.setupMain and setupDataEntry
  smHasEntry,  \* whether this.config.entry is an object
  smSources,   \* story -> the kinds of its data sources
  smPc,        \* "start", "returned", "awaiting" or "done"
  smData,      \* <<story, source>> -> state of its setupDataEntry promise
  smMain,      \* main.cjs: "unwritten" or "written"
  \* ---- StyleguideHelper.useTitle and useAlias
  stOptions,   \* this.config.options: structuredTitle, sep, disableAlias
  stTitles,    \* this.titles: title -> number of times it was asked for
  stReturned,  \* the titles useTitle returned, in order
  stAlias,     \* the calls of useAlias with their results, in order
  \* ---- StyleguideCompiler.extendBuilder
  ebInitial,   \* the default builder extensions
  ebProposal,  \* the custom builder extensions
  ebPc,        \* "start" or "done"
  ebResult,    \* the list extendBuilder returned
  \* ---- BaseService.defineEntry
  deConfig,    \* this.config.entry: its kind and what each glob matches
  dePc,        \* "start" or "done"
  deEntry      \* this.entry

tmVars == <<subs, hookMap, err, pubState, pubCat, pubReq, matched, invoked,
            verb, sigCount, completed, exceptions>>
jsVars == <<jsEntry, jsPc, jsFile>>
sgcVars == <<sgcEnv, sgcPc, sgcMain, sgcHasEntry, sgcStories, sgcPrev, sgcChild, sgcErrSeen,
             sgcAsset, sgcSync>>
sghVars == <<shEntry, shPc, shStory, shDone>>
gateVars == <<gOptions, thisOptions, gEnv, gTooling, gHandler, gPublishes,
              gInitCalls, gStubCalls, gPending, gSubEnv, gPubEnv>>
harborVars == <<hEnv, argv, hPc, trace, validated>>
mountVars == <<mHooks, mCat, mIdx, mStep, calls, mPub>>
postcssVars == <<pcEntry, pcPc, pcPromise, pcCb, pcQueue, pcDir, pcCwdQueue,
                 pcCwdCb, pcFile>>
serviceVars == <<svName, svTooling, svOps, svWarnings>>
legacyVars == <<lgTasks, lgPc, lgLog, lgStage>>
setupVars == <<smHasEntry, smSources, smPc, smData, smMain>>
helperVars == <<stOptions, stTitles, stReturned, stAlias>>
builderVars == <<ebInitial, ebProposal, ebPc, ebResult>>
entryVars == <<deConfig, dePc, deEntry>>
lateVars == <<helperVars, builderVars, entryVars>>
moreVars == <<mountVars, postcssVars, serviceVars, legacyVars, setupVars,
              lateVars>>
vars == <<tmVars, sent, jsVars, sgcVars, sghVars, gateVars, harborVars, moreVars>>

\* ------------------------------------------------------------------ bounds
MaxReq == 2         \* hook names in a task request
MaxSignals == 2     \* signals one unit sends in one cycle
MaxCwd == 2         \* entry patterns of a unit
MaxPaths == 2       \* paths one entry pattern resolves to
MaxAssets == 3      \* assets below THEME_DIST
MaxStories == 2     \* stories setupMain finds
MaxPrev == 2        \* files of a previous static build
MaxAccepted == 2    \* entries of an acceptedEnvironments array
MaxPublishes == 2   \* publishes of one unit's hook

\* ----------------------------------------------------------------- helpers
Range(s) == {s[i] : i \in DOMAIN s}

SeqsUpTo(S, n) == UNION {[1..k -> S] : k \in 0..n}

RECURSIVE Count(_, _)
Count(s, x) ==
  IF s = <<>> THEN 0
  ELSE (IF Head(s) = x THEN 1 ELSE 0) + Count(Tail(s), x)

NoDuplicates(s) == \A i, j \in DOMAIN s : s[i] = s[j] => i = j

\* ------------------------------------------------- BaseService signalling
\* The argument with which a unit calls resolve: resolve() passes undefined.
ExitArgs == {"undefined", "true"}

\* BaseService.resolve(exit): the call TaskManager.resolve(this.name, exit).
ServiceResolve(name, exit) == [name |-> name, exit |-> exit]

ServiceRejectAsSuccess(name) == ServiceResolve(name, "undefined")

\* BaseService.reject(): this.resolve(true).
ServiceReject(name) == ServiceResolve(name, "true")

\* The signal a unit sends with the verb it chose.
Signal(name, v) ==
  IF v = "reject" THEN ServiceReject(name) ELSE ServiceResolve(name, "undefined")

\* resolve(failed: bool): a truthy argument reports a failure.
Failed(call) == call.exit = "true"

\* ---------------------------------------------------------- configuration
Categories == {"workers", "plugins"}
Units == {"SassCompiler", "JsCompiler", "Watcher"}
Aliases == {"compile", "compile::1"}
HookNames == Units \cup Aliases \cup {"undefined", "JsCompiler::1"}

\* A fixed enumeration order of the hook names.
HookOrder ==
  <<"SassCompiler", "JsCompiler", "Watcher", "compile", "compile::1",
    "undefined">>

\* hook.split('::')[0]
HookPrefix(h) == IF h = "compile::1" THEN "compile" ELSE h

\* The loaded configuration: per category and unit, the configured hook in
\* each of its shapes (absent, a string, an array).
Config ==
  [workers |->
     [SassCompiler |-> [kind |-> "array", list |-> <<"compile", "compile::1">>],
      JsCompiler |-> [kind |-> "string", list |-> <<"compile">>],
      Watcher |-> [kind |-> "string", list |-> <<"Watcher">>]],
   plugins |->
     [SassCompiler |-> [kind |-> "absent", list |-> <<>>],
      JsCompiler |-> [kind |-> "array", list |-> <<"JsCompiler", "compile::1">>],
      Watcher |-> [kind |-> "string", list |-> <<"compile::1">>]]]

\* Harbor.mount: the hook list handed to handler.subscribe.
MountHooks(name, hook) ==
  LET h == IF hook.kind = "array" THEN hook.list
           ELSE IF hook.kind = "absent" THEN <<"undefined">>
           ELSE hook.list
      same == hook.kind = "string" /\ hook.list[1] = name
      falsy == hook.kind = "absent" \/ (hook.kind = "string" /\ hook.list[1] = "")
  IN IF ~falsy /\ ~same THEN <<name>> \o h ELSE h

\* ----------------------------------------------------------- hook registry
RegisteredNames(cat) == {subs[cat][i].name : i \in DOMAIN subs[cat]}

\* register: the new subscription is appended and entered under each hook.
RegistryAdd(cat, name, hooks) ==
  /\ subs' = [subs EXCEPT ![cat] = Append(@, [name |-> name, hooks |-> hooks])]
  /\ hookMap' = [hookMap EXCEPT ![cat] =
                   [h \in HookNames |->
                      IF h \in hooks THEN Append(@[h], name) ELSE @[h]]]

RegistryOverwrite(cat, name, hooks) ==
  /\ subs' = [subs EXCEPT ![cat] =
                Append(SelectSeq(@, LAMBDA s : s.name # name),
                       [name |-> name, hooks |-> hooks])]
  /\ hookMap' = [hookMap EXCEPT ![cat] =
                   [h \in HookNames |->
                      IF h \in hooks
                      THEN Append(SelectSeq(@[h], LAMBDA n : n # name), name)
                      ELSE SelectSeq(@[h], LAMBDA n : n # name)]]
  /\ UNCHANGED err

\* register of a name the category already holds: DuplicateNameError, the
\* registry stays as it is.
RegistryDuplicate(cat, name, hooks) ==
  /\ err' = "DuplicateNameError"
  /\ UNCHANGED <<subs, hookMap>>

\* register(name, hooks, handler, category)
Register(cat, name, hooks) ==
  IF name \in RegisteredNames(cat)
  THEN RegistryDuplicate(cat, name, hooks)
  ELSE RegistryAdd(cat, name, hooks) /\ UNCHANGED err

\* The subscribers of the requested hooks, hook by hook.
RECURSIVE Gather(_, _)
Gather(cat, req) ==
  IF req = <<>> THEN <<>>
  ELSE hookMap[cat][Head(req)] \o Gather(cat, Tail(req))

\* Each name once, at its first position.
RECURSIVE Dedup(_)
Dedup(s) ==
  IF s = <<>> THEN <<>>
  ELSE LET front == Dedup(SubSeq(s, 1, Len(s) - 1))
           last == s[Len(s)]
       IN IF last \in Range(front) THEN front ELSE Append(front, last)

ResolveKeepAll(cat, req) == Gather(cat, req)

ResolveAnyCategory(cat, req) ==
  Dedup(Gather("workers", req) \o Gather("plugins", req))

\* resolve(category, requestedHooks)
Resolve(cat, req) == Dedup(Gather(cat, req))

\* TaskManager.workerHooks(): the hook names the workers are subscribed to.
WorkerHooks == SelectSeq(HookOrder, LAMBDA h : hookMap["workers"][h] # <<>>)

\* Harbor.init without a task argument: the worker hooks named by a custom
\* command line argument, each cut at '::'.
RECURSIVE DeriveFrom(_, _)
DeriveFrom(hooks, customArgs) ==
  IF hooks = <<>> THEN <<>>
  ELSE (IF HookPrefix(Head(hooks)) \in customArgs
        THEN <<HookPrefix(Head(hooks))>> ELSE <<>>)
       \o DeriveFrom(Tail(hooks), customArgs)

DeriveTasks(customArgs) == DeriveFrom(WorkerHooks, customArgs)

\* The requests a publish can be given: a list of task names, or the list
\* Harbor.init derives from the custom arguments.
CustomArgNames == {"compile", "Watcher", "minify"}
TaskNames == {"Watcher", "compile", "compile::1"}
Requests ==
  SeqsUpTo(TaskNames, MaxReq)
    \cup {DeriveTasks(c) : c \in SUBSET CustomArgNames}

\* The other command line arguments Harbor.init looks at, in the order of
\* Object.keys(args): customArgs itself is one of the keys.
ArgNames == {"JsCompiler", "JsCompiler::1", "compile::1"}
ArgOrder == <<"customArgs", "JsCompiler", "JsCompiler::1", "compile::1">>

\* String(arg).split('::')[0]
ArgPrefix(a) == IF a = "JsCompiler::1" THEN "JsCompiler" ELSE HookPrefix(a)

\* The subscriptions of a category that declare one of the requested hooks
\* (section 3: a subscription's hooks are its name and its aliases).
MatchedUnits(cat, req) ==
  {subs[cat][i].name :
     i \in {j \in DOMAIN subs[cat] : subs[cat][j].hooks \cap Range(req) # {}}}

\* ----------------------------------------------------------- publish engine
Recorded == Range(completed) \cup Range(exceptions)

NoUnits == [u \in Units |-> 0]
NoVerbs == [u \in Units |-> "none"]

NeverReturns(m) == "running"

\* publish, step 1: nothing matched is an empty result at once.
StateAfterResolve(m) == IF m = <<>> THEN "returned" ELSE "running"

AnySettled == \E u \in Range(matched) : u \in Recorded

\* publish, step 3: every matched handler has signalled.
AllSettled == \A u \in Range(matched) : u \in Recorded

SecondSignalIgnored(call) ==
  UNCHANGED <<completed, exceptions, err, pubState>>

\* A signal of a unit the cycle has already recorded: DoubleSignalError,
\* which aborts the process; the result sets stay as they are.
SecondSignal(call) ==
  /\ err' = "DoubleSignalError"
  /\ pubState' = "aborted"
  /\ UNCHANGED <<completed, exceptions>>

\* publish, step 4: the first signal of a unit enters it in one result set.
FirstSignal(call) ==
  /\ IF Failed(call)
     THEN exceptions' = Append(exceptions, call.name) /\ UNCHANGED completed
     ELSE completed' = Append(completed, call.name) /\ UNCHANGED exceptions
  /\ UNCHANGED <<err, pubState>>

\* TaskManager.resolve(name, exit)
TaskManagerResolve(call) ==
  IF call.name \in Recorded THEN SecondSignal(call) ELSE FirstSignal(call)

\* ------------------------------------------------------------ actions (Spec)
others == <<sent, jsEntry, jsPc, jsFile, sgcEnv, sgcPc, sgcMain, sgcHasEntry,
            sgcStories, sgcPrev, sgcChild, sgcErrSeen, sgcAsset, sgcSync, shEntry, shPc,
            shStory, shDone, gateVars, harborVars, moreVars>>

\* No error has ended the run and no cycle is under way.
Quiet == err = "none" /\ pubState = "idle"

\* Harbor.mount for one unit: handler.subscribe with the hook list that mount
\* derives from the configured hook; subscribe registers the unit under its
\* name and those hooks.
Subscribe(cat, name) ==
  /\ Quiet
  /\ Register(cat, name, {name} \cup Range(MountHooks(name, Config[cat][name])))
  /\ UNCHANGED <<pubState, pubCat, pubReq, matched, invoked, verb, sigCount,
                 completed, exceptions>>
  /\ UNCHANGED others

\* publish, steps 1 and 2: the request is resolved and every matched handler
\* is invoked.
StartCycle(cat, req) ==
  /\ pubCat' = cat
  /\ pubReq' = req
  /\ matched' = Resolve(cat, req)
  /\ invoked' = [u \in Units |-> Count(matched', u)]
  /\ verb' = NoVerbs
  /\ sigCount' = NoUnits
  /\ completed' = <<>>
  /\ exceptions' = <<>>
  /\ pubState' = StateAfterResolve(matched')
  /\ UNCHANGED <<subs, hookMap, err>>

\* TaskManager.publish(category, requestedHooks), steps 1 and 2.
PublishStart(cat, req) ==
  /\ Quiet
  /\ StartCycle(cat, req)
  /\ UNCHANGED others

\* An invoked unit calls resolve() or reject().
UnitSignal(u, v) ==
  /\ err = "none"
  /\ pubState = "running"
  /\ invoked[u] >= 1
  /\ sigCount[u] < MaxSignals
  /\ sigCount' = [sigCount EXCEPT ![u] = @ + 1]
  /\ verb' = [verb EXCEPT ![u] = IF @ = "none" THEN v ELSE @]
  /\ TaskManagerResolve(Signal(u, v))
  /\ UNCHANGED <<subs, hookMap, pubCat, pubReq, matched, invoked>>
  /\ UNCHANGED others

\* The promise of publish is fulfilled with the result.
PublishReturn ==
  /\ err = "none"
  /\ pubState = "running"
  /\ AllSettled
  /\ pubState' = "returned"
  /\ UNCHANGED <<subs, hookMap, err, pubCat, pubReq, matched, invoked, verb,
                 sigCount, completed, exceptions>>
  /\ UNCHANGED others

NoEntry == [defined |-> FALSE, lists |-> <<>>]

JsIdle == jsEntry = NoEntry /\ jsPc = "start" /\ jsFile = <<>>

SgcIdle ==
  /\ sgcEnv = "development" /\ sgcPc = "start" /\ sgcMain = "unwritten"
  /\ sgcHasEntry = FALSE /\ sgcStories = 0 /\ sgcPrev = 0
  /\ sgcChild = "none" /\ sgcErrSeen = FALSE
  /\ sgcAsset = <<>> /\ sgcSync = "idle"

SghIdle == shEntry = NoEntry /\ shPc = "start" /\ shStory = <<>> /\ shDone = <<>>

\* A unit constructed without options and without tools, never subscribed.
NoOptions == [given |-> FALSE, accepted |-> "absent", list |-> <<>>]

GateIdle ==
  /\ gOptions = NoOptions
  /\ thisOptions = [defined |-> FALSE, list |-> <<>>]
  /\ gEnv = "production"
  /\ gTooling = FALSE
  /\ gHandler = "unsubscribed"
  /\ gPublishes = 0 /\ gInitCalls = 0 /\ gStubCalls = 0 /\ gPending = 0
  /\ gSubEnv = "production" /\ gPubEnv = "production"

NoArgs ==
  [task |-> "none", customArgs |-> {}, args |-> [a \in ArgNames |-> "absent"]]

\* No Harbor instance has been constructed.
HarborIdle ==
  /\ hEnv = [kind |-> "record", loaded |-> "production"]
  /\ argv = NoArgs
  /\ hPc = "idle"
  /\ trace = <<>>
  /\ validated = <<>>

\* Harbor.mount has not been called.
MountIdle ==
  /\ mHooks = [u \in Units |-> [kind |-> "absent", list |-> <<>>]]
  /\ mCat = "workers"
  /\ mIdx = 1 /\ mStep = 1
  /\ calls = <<>>
  /\ mPub = FALSE

\* No PostcssCompiler has been started.
PostcssIdle ==
  /\ pcEntry = [kind |-> "absent", lists |-> <<>>]
  /\ pcPc = "start"
  /\ pcPromise = "pending"
  /\ pcCb = 0 /\ pcQueue = 0
  /\ pcDir = <<>> /\ pcCwdQueue = <<>> /\ pcCwdCb = <<>>
  /\ pcFile = <<>>

\* No method of a bare service has been called.
ServiceIdle ==
  /\ svName = "" /\ svTooling = "none" /\ svOps = <<>> /\ svWarnings = 0

\* Harbor.init of bin/Harbor.js has not been called.
LegacyIdle ==
  /\ lgTasks = <<>> /\ lgPc = "start" /\ lgLog = <<>> /\ lgStage = <<>>

\* setupMain has not been called on its own.
SetupIdle ==
  /\ smHasEntry = FALSE /\ smSources = <<>> /\ smPc = "start"
  /\ smData = <<>> /\ smMain = "unwritten"

\* No template helper of StyleguideHelper has been called.
HelperIdle ==
  /\ stOptions = [structuredTitle |-> FALSE, sep |-> "", disableAlias |-> FALSE]
  /\ stTitles = <<>> /\ stReturned = <<>> /\ stAlias = <<>>

\* extendBuilder has not been called on its own.
BuilderIdle ==
  ebInitial = <<>> /\ ebProposal = <<>> /\ ebPc = "start" /\ ebResult = <<>>

\* defineEntry has not been called on its own.
EntryIdle ==
  /\ deConfig = [kind |-> "missing", patterns |-> <<>>]
  /\ dePc = "start"
  /\ deEntry = [defined |-> FALSE, lists |-> <<>>]

LateIdle == HelperIdle /\ BuilderIdle /\ EntryIdle

MoreIdle ==
  MountIdle /\ PostcssIdle /\ ServiceIdle /\ LegacyIdle /\ SetupIdle
    /\ LateIdle

OthersIdle ==
  /\ sent = <<>>
  /\ JsIdle /\ SgcIdle /\ SghIdle /\ GateIdle /\ HarborIdle /\ MoreIdle

TmIdle ==
  /\ subs = [c \in Categories |-> <<>>]
  /\ hookMap = [c \in Categories |-> [h \in HookNames |-> <<>>]]
  /\ err = "none"
  /\ pubState = "idle"
  /\ pubCat = "workers"
  /\ pubReq = <<>>
  /\ matched = <<>>
  /\ invoked = NoUnits
  /\ verb = NoVerbs
  /\ sigCount = NoUnits
  /\ completed = <<>>
  /\ exceptions = <<>>

\* The awaited publish has handed its result over: the cycle is over.
CycleOver ==
  /\ pubState' = "idle"
  /\ pubCat' = "workers"
  /\ pubReq' = <<>>
  /\ matched' = <<>>
  /\ invoked' = NoUnits
  /\ verb' = NoVerbs
  /\ sigCount' = NoUnits
  /\ completed' = <<>>
  /\ exceptions' = <<>>
  /\ UNCHANGED <<subs, hookMap, err>>

\* Harbor.init has awaited the publish and taken its result: the cycle is
\* over, init goes on to mount and publish the next category.
ResultTaken ==
  /\ err = "none"
  /\ pubState = "returned"
  /\ CycleOver
  /\ UNCHANGED others

Init == TmIdle /\ OthersIdle

Next ==
  \/ \E cat \in Categories, name \in Units : Subscribe(cat, name)
  \/ \E cat \in Categories, req \in Requests : PublishStart(cat, req)
  \/ \E u \in Units, v \in {"resolve", "reject"} : UnitSignal(u, v)
  \/ PublishReturn
  \/ ResultTaken

Spec == Init /\ [][Next]_vars

\* ------------------------------------------------------------- JsOptimizer
\* this.entry after defineEntry: undefined, or one non-empty list of paths
\* per entry pattern that matched.
EntryShapes ==
  {NoEntry} \cup [defined : {TRUE}, lists : SeqsUpTo(1..MaxPaths, MaxCwd)]

PathsOf(entry) ==
  {f \in (DOMAIN entry.lists) \X (1..MaxPaths) : f[2] <= entry.lists[f[1]]}

\* What fs.readFile and minify yield for one path.
ReadOutcomes == {"readError", "minified", "minifyError", "emptyCode"}

\* The blob handed to write: the original data after a minify error,
\* otherwise result.code.
Blob(outcome) ==
  IF outcome = "minifyError" THEN "data"
  ELSE IF outcome = "minified" THEN "code"
  ELSE ""

\* JsOptimizer.write(path, blob): without a path or a blob it rejects and
\* returns undefined, otherwise it returns the promise of fs.writeFile.
JsWrite(path, blob) ==
  IF path = "" \/ blob = "" THEN "undefined" ELSE "promise"

jsOthers == <<subs, hookMap, err, pubState, pubCat, pubReq, matched, invoked,
              verb, sigCount, completed, exceptions, sgcEnv, sgcPc, sgcMain,
              sgcHasEntry, sgcStories, sgcPrev, sgcChild, sgcErrSeen, sgcAsset,
              sgcSync, shEntry, shPc, shStory, shDone, gateVars, harborVars, moreVars>>

\* JsOptimizer.init up to its await: without entries it resolves at once,
\* otherwise optimizeCwd starts fs.readFile for every path of every list.
JsInit ==
  /\ jsPc = "start"
  /\ IF ~jsEntry.defined \/ Len(jsEntry.lists) = 0
     THEN /\ sent' = Append(sent, ServiceResolve("JsOptimizer", "undefined"))
          /\ jsPc' = "done"
          /\ UNCHANGED jsFile
     ELSE /\ jsFile' = [f \in PathsOf(jsEntry) |-> "reading"]
          /\ jsPc' = "awaiting"
          /\ UNCHANGED sent
  /\ UNCHANGED <<jsEntry, jsOthers>>

\* The callback of fs.readFile for one path.  Without data it resolves the
\* service and never calls done.  With data it calls write: a promise whose
\* then calls done, or undefined after write has rejected, on which .then
\* throws inside the callback and ends the process.
JsReadCallback(f, outcome) ==
  /\ jsPc = "awaiting"
  /\ jsFile[f] = "reading"
  /\ IF outcome = "readError"
     THEN /\ sent' = Append(sent, ServiceResolve("JsOptimizer", "undefined"))
          /\ jsFile' = [jsFile EXCEPT ![f] = "dropped"]
          /\ UNCHANGED jsPc
     ELSE IF JsWrite("path", Blob(outcome)) = "undefined"
     THEN /\ sent' = Append(sent, ServiceReject("JsOptimizer"))
          /\ jsFile' = [jsFile EXCEPT ![f] = "dropped"]
          /\ jsPc' = "crashed"
     ELSE /\ jsFile' = [jsFile EXCEPT ![f] = "writing"]
          /\ UNCHANGED <<sent, jsPc>>
  /\ UNCHANGED <<jsEntry, jsOthers>>

\* The callback of fs.writeFile: cb(), then done().
JsWriteCallback(f) ==
  /\ jsPc = "awaiting"
  /\ jsFile[f] = "writing"
  /\ jsFile' = [jsFile EXCEPT ![f] = "done"]
  /\ UNCHANGED <<sent, jsPc, jsEntry, jsOthers>>

\* Every promise of every list is fulfilled: init goes on to resolve.
JsFinish ==
  /\ jsPc = "awaiting"
  /\ \A f \in PathsOf(jsEntry) : jsFile[f] = "done"
  /\ sent' = Append(sent, ServiceResolve("JsOptimizer", "undefined"))
  /\ jsPc' = "done"
  /\ UNCHANGED <<jsFile, jsEntry, jsOthers>>

\* No callback of the invocation is outstanding any more.
JsSettled ==
  \/ jsPc \in {"done", "crashed"}
  \/ /\ jsPc = "awaiting"
     /\ \A f \in PathsOf(jsEntry) : jsFile[f] \in {"done", "dropped"}
     /\ \E f \in PathsOf(jsEntry) : jsFile[f] = "dropped"

InitJs ==
  /\ TmIdle /\ SgcIdle /\ SghIdle /\ GateIdle /\ HarborIdle /\ MoreIdle
  /\ sent = <<>>
  /\ jsEntry \in EntryShapes
  /\ jsPc = "start"
  /\ jsFile = [f \in PathsOf(jsEntry) |-> "idle"]

NextJs ==
  \/ JsInit
  \/ \E f \in PathsOf(jsEntry), o \in ReadOutcomes : JsReadCallback(f, o)
  \/ \E f \in PathsOf(jsEntry) : JsWriteCallback(f)
  \/ JsFinish

SpecJs == InitJs /\ [][NextJs]_vars

\* ------------------------------------------------------ StyleguideCompiler
Environments == {"production", "development"}

sgcOthers == <<subs, hookMap, err, pubState, pubCat, pubReq, matched, invoked,
               verb, sigCount, completed, exceptions, jsEntry, jsPc, jsFile,
               shEntry, shPc, shStory, shDone, gateVars, harborVars, moreVars>>

\* setupMain is called without await: it returns at once when the entry
\* configuration is no object, writes main.cjs before init goes on when
\* there is no story, and otherwise only after the stories' data is loaded.
MainAfterSetup(hasEntry, stories) ==
  IF ~hasEntry THEN "unwritten"
  ELSE IF stories = 0 THEN "written"
  ELSE "pending"

\* The files of a previous build that init leaves in place: the files are
\* unlinked only inside the branch taken when there is none.
PrevAfterClear(environment, prev) ==
  IF environment = "production" /\ prev = 0 THEN 0 ELSE prev

\* StyleguideCompiler.init: setupBuilder, setupMain, the clearing of the
\* previous build and exec(command) with its listeners.
SgcInit ==
  /\ sgcPc = "start"
  /\ sgcPc' = "launched"
  /\ sgcMain' = MainAfterSetup(sgcHasEntry, sgcStories)
  /\ sgcPrev' = PrevAfterClear(sgcEnv, sgcPrev)
  /\ sgcChild' = "running"
  /\ UNCHANGED <<sent, sgcEnv, sgcHasEntry, sgcStories, sgcErrSeen, sgcAsset,
                 sgcSync, sgcOthers>>

\* setupMain after its await: main.cjs is written.
SgcMainWritten ==
  /\ sgcMain = "pending"
  /\ sgcMain' = "written"
  /\ UNCHANGED <<sent, sgcEnv, sgcPc, sgcHasEntry, sgcStories, sgcPrev,
                 sgcChild, sgcErrSeen, sgcAsset, sgcSync, sgcOthers>>

\* The child emits 'error': in production the listener rejects.  An 'exit'
\* may or may not follow: with last the child emits nothing further.
SgcChildError(last) ==
  /\ sgcChild = "running"
  /\ ~sgcErrSeen
  /\ sgcErrSeen' = TRUE
  /\ sgcChild' = IF last THEN "failed" ELSE "running"
  /\ sent' = IF sgcEnv = "production"
             THEN Append(sent, ServiceReject("StyleguideCompiler"))
             ELSE sent
  /\ UNCHANGED <<sgcEnv, sgcPc, sgcMain, sgcHasEntry, sgcStories, sgcPrev,
                 sgcAsset, sgcSync, sgcOthers>>

SynchronizesNever(environment) == FALSE

\* The 'exit' listener: this.environment.THEME_ENVIRONMENT === 'production'
SynchronizesFirst(environment) == environment = "production"

\* The child emits 'exit': in production synchronizeAssets starts a mkdirp
\* for every asset, elsewhere the listener resolves.
SgcChildExit ==
  /\ sgcChild = "running"
  /\ sgcChild' = "exited"
  /\ IF SynchronizesFirst(sgcEnv)
     THEN /\ sgcSync' = "running"
          /\ sgcAsset' = [a \in DOMAIN sgcAsset |-> "mkdir"]
          /\ UNCHANGED sent
     ELSE /\ sent' = Append(sent, ServiceResolve("StyleguideCompiler", "undefined"))
          /\ UNCHANGED <<sgcSync, sgcAsset>>
  /\ UNCHANGED <<sgcEnv, sgcPc, sgcMain, sgcHasEntry, sgcStories, sgcPrev,
                 sgcErrSeen, sgcOthers>>

\* mkdirp settles for one asset: fulfilled, fs.copyFile starts; rejected,
\* nothing calls done for that asset.
SgcMkdir(a, ok) ==
  /\ sgcSync = "running"
  /\ sgcAsset[a] = "mkdir"
  /\ sgcAsset' = [sgcAsset EXCEPT ![a] = IF ok THEN "copying" ELSE "stuck"]
  /\ UNCHANGED <<sent, sgcEnv, sgcPc, sgcMain, sgcHasEntry, sgcStories, sgcPrev,
                 sgcChild, sgcErrSeen, sgcSync, sgcOthers>>

\* The callback of fs.copyFile: done().
SgcCopied(a) ==
  /\ sgcSync = "running"
  /\ sgcAsset[a] = "copying"
  /\ sgcAsset' = [sgcAsset EXCEPT ![a] = "copied"]
  /\ UNCHANGED <<sent, sgcEnv, sgcPc, sgcMain, sgcHasEntry, sgcStories, sgcPrev,
                 sgcChild, sgcErrSeen, sgcSync, sgcOthers>>

\* synchronizeAssets is fulfilled: the 'exit' listener resolves.
SgcSynchronized ==
  /\ sgcSync = "running"
  /\ \A a \in DOMAIN sgcAsset : sgcAsset[a] = "copied"
  /\ sgcSync' = "done"
  /\ sent' = Append(sent, ServiceResolve("StyleguideCompiler", "undefined"))
  /\ UNCHANGED <<sgcEnv, sgcPc, sgcMain, sgcHasEntry, sgcStories, sgcPrev,
                 sgcChild, sgcErrSeen, sgcAsset, sgcOthers>>

\* The child emits nothing further and no callback is outstanding.
SgcSettled ==
  /\ sgcChild \in {"failed", "exited"}
  /\ sgcSync = "running" =>
       /\ \A a \in DOMAIN sgcAsset : sgcAsset[a] \in {"copied", "stuck"}
       /\ \E a \in DOMAIN sgcAsset : sgcAsset[a] = "stuck"

InitSgc ==
  /\ TmIdle /\ JsIdle /\ SghIdle /\ GateIdle /\ HarborIdle /\ MoreIdle
  /\ sent = <<>>
  /\ sgcEnv \in Environments
  /\ sgcPc = "start"
  /\ sgcMain = "unwritten"
  /\ sgcHasEntry \in BOOLEAN
  /\ sgcStories \in 0..MaxStories
  /\ sgcPrev \in 0..MaxPrev
  /\ sgcChild = "none"
  /\ sgcErrSeen = FALSE
  /\ sgcAsset \in {[a \in 1..n |-> "idle"] : n \in 0..MaxAssets}
  /\ sgcSync = "idle"

NextSgc ==
  \/ SgcInit
  \/ SgcMainWritten
  \/ \E last \in BOOLEAN : SgcChildError(last)
  \/ SgcChildExit
  \/ \E a \in DOMAIN sgcAsset, ok \in BOOLEAN : SgcMkdir(a, ok)
  \/ \E a \in DOMAIN sgcAsset : SgcCopied(a)
  \/ SgcSynchronized

SpecSgc == InitSgc /\ [][NextSgc]_vars

\* -------------------------------------------------------- StyleguideHelper
sghOthers == <<subs, hookMap, err, pubState, pubCat, pubReq, matched, invoked,
               verb, sigCount, completed, exceptions, jsEntry, jsPc, jsFile,
               sgcEnv, sgcPc, sgcMain, sgcHasEntry, sgcStories, sgcPrev,
               sgcChild, sgcErrSeen, sgcAsset, sgcSync, gateVars, harborVars, moreVars>>

\* What setupInitialStories does with one source while it runs: the story
\* exists and is skipped, fs.writeFile is started, or fs.writeFile throws
\* and the catch only logs, so the story's callback is never called.
QueueOutcomes == {"skipped", "writing", "threw"}

\* Promise.all over the queue of one entry: the promises of the queue are
\* never rejected (the executor catches), so it is fulfilled once every
\* queued story has called back and pending otherwise.
QueueState(stories, e) ==
  IF \A f \in DOMAIN stories : f[1] = e => stories[f] \in {"skipped", "written"}
  THEN "fulfilled" ELSE "pending"

\* The chain after Promise.all: catch (logs and rejects the service) is
\* passed over when the queue is fulfilled; then calls done.
ChainSignals(state) ==
  IF state = "rejected" THEN <<ServiceReject("StyleguideHelper")>> ELSE <<>>

\* StyleguideHelper.init up to its await: this.entry.map throws when the
\* entry is undefined; otherwise setupInitialStories runs for every list.
ShInit(outcome) ==
  /\ shPc = "start"
  /\ IF ~shEntry.defined
     THEN /\ shPc' = "threw"
          /\ UNCHANGED <<shStory, shDone>>
     ELSE /\ shPc' = "awaiting"
          /\ shStory' = outcome
          /\ shDone' = [e \in DOMAIN shEntry.lists |-> FALSE]
  /\ UNCHANGED <<sent, shEntry, sghOthers>>

\* The callback of fs.writeFile for one story: logs, then callback().
ShWriteCallback(f) ==
  /\ shPc = "awaiting"
  /\ shStory[f] = "writing"
  /\ shStory' = [shStory EXCEPT ![f] = "written"]
  /\ UNCHANGED <<sent, shPc, shDone, shEntry, sghOthers>>

\* The queue of one entry has settled: the chain runs and calls done().
ShEntryDone(e) ==
  /\ shPc = "awaiting"
  /\ ~shDone[e]
  /\ QueueState(shStory, e) # "pending"
  /\ sent' = sent \o ChainSignals(QueueState(shStory, e))
  /\ shDone' = [shDone EXCEPT ![e] = TRUE]
  /\ UNCHANGED <<shPc, shStory, shEntry, sghOthers>>

\* Every setupInitialStories promise is fulfilled: init resolves.
ShFinish ==
  /\ shPc = "awaiting"
  /\ \A e \in DOMAIN shDone : shDone[e]
  /\ sent' = Append(sent, ServiceResolve("StyleguideHelper", "undefined"))
  /\ shPc' = "done"
  /\ UNCHANGED <<shStory, shDone, shEntry, sghOthers>>

\* No callback of the invocation is outstanding any more.
ShSettled ==
  \/ shPc \in {"done", "threw"}
  \/ /\ shPc = "awaiting"
     /\ \A f \in DOMAIN shStory : shStory[f] # "writing"
     /\ \E f \in DOMAIN shStory : shStory[f] = "threw"
     /\ \A e \in DOMAIN shDone : QueueState(shStory, e) # "pending" => shDone[e]

InitSgh ==
  /\ TmIdle /\ JsIdle /\ SgcIdle /\ GateIdle /\ HarborIdle /\ MoreIdle
  /\ sent = <<>>
  /\ shEntry \in EntryShapes
  /\ shPc = "start"
  /\ shStory = [f \in PathsOf(shEntry) |-> "idle"]
  /\ shDone = [e \in DOMAIN shEntry.lists |-> FALSE]

NextSgh ==
  \/ \E outcome \in [PathsOf(shEntry) -> QueueOutcomes] : ShInit(outcome)
  \/ \E f \in PathsOf(shEntry) : ShWriteCallback(f)
  \/ \E e \in DOMAIN shEntry.lists : ShEntryDone(e)
  \/ ShFinish

SpecSgh == InitSgh /\ [][NextSgh]_vars

\* ------------------------------------------- BaseService: environment gate
\* The values THEME_ENVIRONMENT is given, and what reading it off
\* this.environment yields: one of them, or undefined.
ThemeEnvironments == Environments \cup {"test"}
GateEnvironments == ThemeEnvironments \cup {"undefined"}

GateUnit == "JsOptimizer"

\* The options argument: none, an object without acceptedEnvironments, an
\* array of environments (the empty one included), a single string.
OptionShapes ==
  {NoOptions, [given |-> TRUE, accepted |-> "absent", list |-> <<>>]}
    \cup {[given |-> TRUE, accepted |-> "array", list |-> l] :
            l \in SeqsUpTo(Environments, MaxAccepted)}
    \cup {[given |-> TRUE, accepted |-> "string", list |-> <<e>>] :
            e \in Environments}

Undefined == [defined |-> FALSE, list |-> <<>>]

DefineAcceptedKeepsString(options) ==
  IF ~options.given \/ options.accepted = "absent" THEN Undefined
  ELSE IF options.accepted = "array"
       THEN [defined |-> TRUE, list |-> options.list]
       ELSE Undefined

\* defineAcceptedEnvironments(options): undefined without options or without
\* the option, the array itself, or the array holding the single value.
DefineAcceptedEnvironments(options) ==
  IF ~options.given \/ options.accepted = "absent" THEN Undefined
  ELSE IF options.accepted = "array"
       THEN [defined |-> TRUE, list |-> options.list]
       ELSE [defined |-> TRUE, list |-> <<options.list[1]>>]

\* defineOptions(options): the inner Object.assign sets acceptedEnvironments
\* to what defineAcceptedEnvironments returned, undefined included, and the
\* outer one lets it replace the default [].
DefineOptions(options) == DefineAcceptedEnvironments(options)

AcceptsEverything(accepted, e) == TRUE

InitIfAcceptedNoLengthTest(accepted, e) ==
  IF ~accepted.defined THEN TRUE ELSE e \in Range(accepted.list)

\* initIfAccepted(): true without the option or with an empty list, else
\* whether the list includes this.environment.THEME_ENVIRONMENT.
InitIfAccepted(accepted, e) ==
  IF ~accepted.defined \/ Len(accepted.list) = 0 THEN TRUE
  ELSE e \in Range(accepted.list)

\* The handler subscribe hands to TaskManager.subscribe.
ChosenHandler(accepted, e) ==
  IF InitIfAccepted(accepted, e) THEN "init" ELSE "stub"

HandlerReevaluated == ChosenHandler(thisOptions, gEnv)

\* The handler a publish invokes: the one that was subscribed.
InvokedHandler == gHandler

StubRejects(name) == ServiceReject(name)

\* The stub: a warning, then return this.resolve().
StubSignal(name) == ServiceResolve(name, "undefined")

gateOthers == <<tmVars, jsVars, sgcVars, sghVars, harborVars, moreVars>>

\* subscribe(hook): without the TaskManager tool nothing is subscribed.
GateSubscribe ==
  /\ gHandler = "unsubscribed"
  /\ gHandler' = IF gTooling THEN ChosenHandler(thisOptions, gEnv) ELSE "none"
  /\ gSubEnv' = gEnv
  /\ UNCHANGED <<gOptions, thisOptions, gEnv, gTooling, gPublishes,
                 gInitCalls, gStubCalls, gPending, gPubEnv, sent>>
  /\ UNCHANGED gateOthers

\* THEME_ENVIRONMENT is given another value: this.environment is the
\* process environment itself, which stays assignable.
GateEnvChange(e) ==
  /\ e # gEnv
  /\ gEnv' = e
  /\ UNCHANGED <<gOptions, thisOptions, gTooling, gHandler, gPublishes,
                 gInitCalls, gStubCalls, gPending, gSubEnv, gPubEnv, sent>>
  /\ UNCHANGED gateOthers

\* A publish of the unit's hook invokes the subscribed handler: init, which
\* signals later, or the stub, which resolves at once.
GatePublish ==
  /\ gHandler \in {"init", "stub"}
  /\ gPublishes < MaxPublishes
  /\ gPending = 0
  /\ gPublishes' = gPublishes + 1
  /\ gPubEnv' = gEnv
  /\ IF InvokedHandler = "init"
     THEN /\ gInitCalls' = gInitCalls + 1
          /\ gPending' = gPending + 1
          /\ UNCHANGED <<gStubCalls, sent>>
     ELSE /\ gStubCalls' = gStubCalls + 1
          /\ sent' = Append(sent, StubSignal(GateUnit))
          /\ UNCHANGED <<gInitCalls, gPending>>
  /\ UNCHANGED <<gOptions, thisOptions, gEnv, gTooling, gHandler, gSubEnv>>
  /\ UNCHANGED gateOthers

\* The invoked init signals with resolve() or reject().
GateInitSignal(v) ==
  /\ gPending > 0
  /\ gPending' = gPending - 1
  /\ sent' = Append(sent, Signal(GateUnit, v))
  /\ UNCHANGED <<gOptions, thisOptions, gEnv, gTooling, gHandler, gPublishes,
                 gInitCalls, gStubCalls, gSubEnv, gPubEnv>>
  /\ UNCHANGED gateOthers

\* The constructor has run defineOptions on its options argument.
InitGate ==
  /\ TmIdle /\ JsIdle /\ SgcIdle /\ SghIdle /\ HarborIdle /\ MoreIdle
  /\ sent = <<>>
  /\ gOptions \in OptionShapes
  /\ thisOptions = DefineOptions(gOptions)
  /\ gEnv \in GateEnvironments
  /\ gTooling \in BOOLEAN
  /\ gHandler = "unsubscribed"
  /\ gPublishes = 0 /\ gInitCalls = 0 /\ gStubCalls = 0 /\ gPending = 0
  /\ gSubEnv = gEnv /\ gPubEnv = gEnv

NextGate ==
  \/ GateSubscribe
  \/ \E e \in GateEnvironments : GateEnvChange(e)
  \/ GatePublish
  \/ \E v \in {"resolve", "reject"} : GateInitSignal(v)

SpecGate == InitGate /\ [][NextGate]_vars

\* ------------------------------------------------ Harbor: run coordinator
\* What the constructor keeps of Env.define().  The Environment class among
\* the sources declares define as async, so the call yields a promise; the
\* module Harbor imports by default export is not among the sources, and a
\* define that returns the loaded variables themselves yields a record.
EnvironmentKinds == {"promise", "record"}

\* Environment.define(): the variables of the environment file.
EnvironmentDefine(kind, loaded) == [kind |-> kind, loaded |-> loaded]

\* this.env.THEME_ENVIRONMENT: a promise has no such property.
ThemeEnvironment(e) == IF e.kind = "promise" THEN "undefined" ELSE e.loaded

\* The task arguments of a run, and the custom arguments given with them.
HarborTasks == {"none", "compile", "Watcher"}

\* Object.keys(instances) of this.workers and of this.plugins.
InstanceOrder == <<"SassCompiler", "JsCompiler", "Watcher">>

\* The hooks a mounted unit is subscribed under.
MountedHooks(cat, name) ==
  {name} \cup Range(MountHooks(name, Config[cat][name]))

\* Harbor.mount(instances, config): every instance is subscribed, in the
\* order of its key; a name the category holds already is refused.
Mount(cat) ==
  IF RegisteredNames(cat) \cap Range(InstanceOrder) # {}
  THEN RegistryDuplicate(cat, InstanceOrder[1], {})
  ELSE
    /\ subs' = [subs EXCEPT ![cat] =
                  @ \o [i \in 1..Len(InstanceOrder) |->
                          [name |-> InstanceOrder[i],
                           hooks |-> MountedHooks(cat, InstanceOrder[i])]]]
    /\ hookMap' = [hookMap EXCEPT ![cat] =
                     [h \in HookNames |->
                        @[h] \o SelectSeq(InstanceOrder,
                                          LAMBDA n : h \in MountedHooks(cat, n))]]
    /\ UNCHANGED err

TasksIgnoringTask == DeriveTasks(argv.customArgs)

\* let tasks = [task].filter((t) => t), filled from the worker hooks when
\* it is empty.
Tasks ==
  IF argv.task # "none" THEN <<argv.task>> ELSE DeriveTasks(argv.customArgs)

\* args[arg]: customArgs is an object.
Truthy(a) == a = "customArgs" \/ (a \in ArgNames /\ argv.args[a] = "true")

\* hook ? (Array.isArray(hook) ? hook : [String(hook)]) : []
DeclaredHooks(hook) == IF hook.kind = "absent" THEN {} ELSE Range(hook.list)

DeclaresUncut(a) ==
  \E u \in Units : a \in DeclaredHooks(Config["plugins"][u])

\* Whether some configured plugin declares the argument's name as a hook.
Declares(a) ==
  \E u \in Units : ArgPrefix(a) \in DeclaredHooks(Config["plugins"][u])

\* const plugins = Object.keys(args).filter(...)
PluginArgs ==
  SelectSeq(ArgOrder,
            LAMBDA a : (a = "customArgs" \/ argv.args[a] # "absent")
                       /\ Truthy(a) /\ Declares(a))

ValidateLenient(e, done, failed) ==
  [threw |-> FALSE,
   log |-> IF done # <<>> THEN (IF failed = <<>> THEN "success" ELSE "none")
           ELSE IF failed # <<>> THEN "warning" ELSE "none"]

\* validateResult(results, type): whether it throws, and what it logs.
ValidateResult(e, done, failed) ==
  IF failed # <<>> /\ e # "development"
  THEN [threw |-> TRUE, log |-> "error"]
  ELSE [threw |-> FALSE,
        log |-> IF done # <<>> THEN (IF failed = <<>> THEN "success" ELSE "none")
                ELSE IF failed # <<>> THEN "warning" ELSE "none"]

WorkerPhaseNotAwaited == hPc \in {"workers", "args"}

WorkerPhaseUnvalidated ==
  hPc = "args" \/ (hPc = "workers" /\ pubState = "returned")

\* init has passed the worker phase: the publish, if there was one, was
\* awaited and its result validated without a throw.
AfterWorkerPhase == hPc = "args"

Event(ev, cat, req) == [ev |-> ev, cat |-> cat, req |-> req]

harborOthers == <<sent, jsVars, sgcVars, sghVars, gateVars, moreVars>>
engineVars == <<pubState, pubCat, pubReq, matched, invoked, verb, sigCount,
                completed, exceptions>>

\* init, line 70: the workers are mounted.
HarborMountWorkers ==
  /\ hPc = "start"
  /\ err = "none"
  /\ Mount("workers")
  /\ hPc' = "mounted"
  /\ trace' = Append(trace, Event("mount", "workers", <<>>))
  /\ UNCHANGED <<hEnv, argv, validated, engineVars>>
  /\ UNCHANGED harborOthers

\* init, lines 72 to 90: the worker request is published, or a warning is
\* logged when there is none.
HarborWorkers ==
  /\ hPc = "mounted"
  /\ err = "none"
  /\ IF Tasks # <<>>
     THEN /\ StartCycle("workers", Tasks)
          /\ hPc' = "workers"
          /\ trace' = Append(trace, Event("publish", "workers", Tasks))
     ELSE /\ hPc' = "args"
          /\ UNCHANGED <<tmVars, trace>>
  /\ UNCHANGED <<hEnv, argv, validated>>
  /\ UNCHANGED harborOthers

\* this.validateResult(result) on the awaited result; a throw leaves the
\* try block for the catch, which throws the Error of init.
HarborValidate ==
  /\ hPc \in {"workers", "plugins"}
  /\ err = "none"
  /\ pubState = "returned"
  /\ LET r == ValidateResult(ThemeEnvironment(hEnv), completed, exceptions)
     IN /\ validated' =
             Append(validated,
                    [type |-> hPc, done |-> completed # <<>>,
                     failed |-> exceptions # <<>>, log |-> r.log,
                     threw |-> r.threw])
        /\ hPc' = IF r.threw THEN "failed"
                  ELSE IF hPc = "workers" THEN "args" ELSE "done"
  /\ trace' = Append(trace, Event("validate", hPc, <<>>))
  /\ CycleOver
  /\ UNCHANGED <<hEnv, argv>>
  /\ UNCHANGED harborOthers

\* init, lines 92 to 111: the plugins are mounted when an argument names a
\* declared plugin hook; otherwise init is over.
HarborPlugins ==
  /\ AfterWorkerPhase
  /\ err = "none"
  /\ IF PluginArgs # <<>>
     THEN /\ Mount("plugins")
          /\ hPc' = "pluginsMounted"
          /\ trace' = Append(trace, Event("mount", "plugins", <<>>))
     ELSE /\ hPc' = "done"
          /\ UNCHANGED <<subs, hookMap, err, trace>>
  /\ UNCHANGED <<hEnv, argv, validated, engineVars>>
  /\ UNCHANGED harborOthers

\* init, lines 119 to 122: publish('plugins', plugins.join(',')).
HarborPublishPlugins ==
  /\ hPc = "pluginsMounted"
  /\ err = "none"
  /\ StartCycle("plugins", PluginArgs)
  /\ hPc' = "plugins"
  /\ trace' = Append(trace, Event("publish", "plugins", PluginArgs))
  /\ UNCHANGED <<hEnv, argv, validated>>
  /\ UNCHANGED harborOthers

\* The constructor has run: the environment and the arguments are read, the
\* TaskManager is new.
InitHarbor ==
  /\ TmIdle /\ JsIdle /\ SgcIdle /\ SghIdle /\ GateIdle /\ MoreIdle
  /\ sent = <<>>
  /\ hEnv \in {EnvironmentDefine(k, e) :
                 k \in EnvironmentKinds, e \in ThemeEnvironments}
  /\ argv \in [task : HarborTasks, customArgs : SUBSET CustomArgNames,
               args : [ArgNames -> {"absent", "true", "false"}]]
  /\ argv.task # "none" => argv.customArgs = {}
  /\ hPc = "start"
  /\ trace = <<>>
  /\ validated = <<>>

NextHarbor ==
  \/ HarborMountWorkers
  \/ HarborWorkers
  \/ \E u \in Units, v \in {"resolve", "reject"} : UnitSignal(u, v)
  \/ PublishReturn
  \/ HarborValidate
  \/ HarborPlugins
  \/ HarborPublishPlugins

SpecHarbor == InitHarbor /\ [][NextHarbor]_vars

\* ----------------------------------------------- Harbor.mount, call by call
\* The shapes of a unit's configured hook: absent, the empty string, the
\* unit's name, another string, and arrays with and without the name.
HookShapes(name) ==
  {[kind |-> "absent", list |-> <<>>],
   [kind |-> "string", list |-> <<"">>],
   [kind |-> "string", list |-> <<name>>],
   [kind |-> "string", list |-> <<"compile">>],
   [kind |-> "array", list |-> <<>>],
   [kind |-> "array", list |-> <<name, "compile">>],
   [kind |-> "array", list |-> <<"compile", "compile::1">>]}

MountCallsSubscribeFirst == <<"subscribe", "defineConfig", "defineEntry">>

\* The calls mount makes on one handler, in order.
MountCalls == <<"defineConfig", "defineEntry", "subscribe">>

Call(unit, call, hooks) == [unit |-> unit, call |-> call, hooks |-> hooks]

mountOthers == <<tmVars, sent, jsVars, sgcVars, sghVars, gateVars, harborVars,
                 postcssVars, serviceVars, legacyVars, setupVars,
                 lateVars>>

\* mount makes its next call on the handler it is at: defineConfig and
\* defineEntry, then subscribe with the hook list, and goes on to the next
\* instance.
MountCall ==
  /\ ~mPub
  /\ mIdx <= Len(InstanceOrder)
  /\ LET name == InstanceOrder[mIdx]
         call == MountCalls[mStep]
     IN calls' = Append(calls,
                        Call(name, call,
                             IF call = "subscribe"
                             THEN MountHooks(name, mHooks[name]) ELSE <<>>))
  /\ IF mStep < Len(MountCalls)
     THEN mStep' = mStep + 1 /\ UNCHANGED mIdx
     ELSE mStep' = 1 /\ mIdx' = mIdx + 1
  /\ UNCHANGED <<mHooks, mCat, mPub>>
  /\ UNCHANGED mountOthers

\* mount has returned and Harbor.init starts the publish of the category.
MountPublish ==
  /\ ~mPub
  /\ mIdx > Len(InstanceOrder)
  /\ mPub' = TRUE
  /\ UNCHANGED <<mHooks, mCat, mIdx, mStep, calls>>
  /\ UNCHANGED mountOthers

InitMount ==
  /\ TmIdle /\ JsIdle /\ SgcIdle /\ SghIdle /\ GateIdle /\ HarborIdle
  /\ LateIdle /\ PostcssIdle /\ ServiceIdle /\ LegacyIdle /\ SetupIdle
  /\ sent = <<>>
  /\ mHooks \in [Units -> UNION {HookShapes(u) : u \in Units}]
  /\ \A u \in Units : mHooks[u] \in HookShapes(u)
  /\ mCat \in Categories
  /\ mIdx = 1 /\ mStep = 1
  /\ calls = <<>>
  /\ mPub = FALSE

NextMount ==
  \/ MountCall
  \/ MountPublish

SpecMount == InitMount /\ [][NextMount]_vars

\* --------------------------------------------------------- PostcssCompiler
\* this.config.entry: undefined, a value that is no object and has no keys
\* of its own, or a mapping of base directories to globs, each of which
\* matches a number of files (none included), MaxFiles at most in all.
MaxFiles == 4

RECURSIVE Sum(_)
Sum(seq) == IF seq = <<>> THEN 0 ELSE Head(seq) + Sum(Tail(seq))

PostcssEntries ==
  {[kind |-> "absent", lists |-> <<>>], [kind |-> "scalar", lists |-> <<>>]}
    \cup [kind : {"object"},
          lists : {l \in SeqsUpTo(0..MaxPaths, MaxCwd) : Sum(l) <= MaxFiles}]

\* !this.config.entry instanceof Object: the negation binds first, and a
\* boolean is no instance of Object.
NotInstanceOfObject(entry) == FALSE

CounterReachedEarly(queue, length) == queue >= length - 1

\* queue >= length, tested after each increment.
CounterReached(queue, length) == queue >= length

FilesOf(d) == {f \in PathsOf(pcEntry) : f[1] = d}

\* A file whose postcss processing or whose mkdirp fails: the then callback
\* is not invoked and no catch is attached.
PostcssFailed(f) == "stuck"

postcssOthers == <<tmVars, sent, jsVars, sgcVars, sghVars, gateVars,
                   harborVars, mountVars, serviceVars, legacyVars,
                   setupVars,
                 lateVars>>

\* init(environment), its synchronous part: Object.keys of the entry, and
\* for every base directory the glob, the start of processCwd (which skips
\* the empty files and starts processFile for the others) up to the await,
\* or the increment of the counter at once when the glob matches nothing.
PostcssInit(skip) ==
  /\ pcPc = "start"
  /\ IF pcEntry.kind = "absent"
     THEN /\ pcPc' = "threw"
          /\ pcPromise' = "rejected"
          /\ UNCHANGED <<pcCb, pcQueue, pcDir, pcCwdQueue, pcCwdCb, pcFile>>
     ELSE LET n == Len(pcEntry.lists)
              skipped(d) == Cardinality({f \in FilesOf(d) : skip[f]})
              empty == Cardinality({d \in 1..n : pcEntry.lists[d] = 0})
              first == IF NotInstanceOfObject(pcEntry) THEN 1 ELSE 0
              last == IF n > 0 /\ CounterReached(empty, n) THEN 1 ELSE 0
          IN /\ pcPc' = "running"
             /\ pcFile' = [f \in PathsOf(pcEntry) |->
                             IF skip[f] THEN "skipped" ELSE "processing"]
             /\ pcCwdQueue' = [d \in 1..n |-> skipped(d)]
             /\ pcCwdCb' = [d \in 1..n |->
                              IF pcEntry.lists[d] > 0
                                 /\ CounterReached(skipped(d), pcEntry.lists[d])
                              THEN 1 ELSE 0]
             /\ pcDir' = [d \in 1..n |->
                            IF pcEntry.lists[d] = 0 THEN "done" ELSE "awaiting"]
             /\ pcQueue' = empty
             /\ pcCb' = first + last
             /\ pcPromise' = IF first + last > 0 THEN "resolved" ELSE "pending"
  /\ UNCHANGED pcEntry
  /\ UNCHANGED postcssOthers

\* postcss(...).process(...) settles for one file.
PostcssProcessed(f, ok) ==
  /\ pcPc = "running"
  /\ pcFile[f] = "processing"
  /\ pcFile' = [pcFile EXCEPT ![f] = IF ok THEN "mkdir" ELSE PostcssFailed(f)]
  /\ UNCHANGED <<pcEntry, pcPc, pcPromise, pcCb, pcQueue, pcDir, pcCwdQueue,
                 pcCwdCb>>
  /\ UNCHANGED postcssOthers

\* mkdirp settles for one file: the css is written and cb() is called.
PostcssDirectoryMade(f, ok) ==
  /\ pcPc = "running"
  /\ pcFile[f] = "mkdir"
  /\ pcFile' = [pcFile EXCEPT ![f] = IF ok THEN "written" ELSE PostcssFailed(f)]
  /\ UNCHANGED <<pcEntry, pcPc, pcPromise, pcCb, pcQueue, pcDir, pcCwdQueue,
                 pcCwdCb>>
  /\ UNCHANGED postcssOthers

\* processCwd after await this.processFile(entry): the counter is
\* incremented and tested.
PostcssFileCounted(f) ==
  /\ pcPc = "running"
  /\ pcFile[f] = "written"
  /\ pcFile' = [pcFile EXCEPT ![f] = "counted"]
  /\ LET d == f[1]
         q == pcCwdQueue[d] + 1
     IN /\ pcCwdQueue' = [pcCwdQueue EXCEPT ![d] = q]
        /\ pcCwdCb' = [pcCwdCb EXCEPT ![d] =
                          IF CounterReached(q, pcEntry.lists[d])
                          THEN @ + 1 ELSE @]
  /\ UNCHANGED <<pcEntry, pcPc, pcPromise, pcCb, pcQueue, pcDir>>
  /\ UNCHANGED postcssOthers

\* init after await this.processCwd(cwd): the counter is incremented and
\* tested.
PostcssDirectoryCounted(d) ==
  /\ pcPc = "running"
  /\ pcDir[d] = "awaiting"
  /\ pcCwdCb[d] >= 1
  /\ pcDir' = [pcDir EXCEPT ![d] = "done"]
  /\ pcQueue' = pcQueue + 1
  /\ IF CounterReached(pcQueue + 1, Len(pcEntry.lists))
     THEN pcCb' = pcCb + 1 /\ pcPromise' = "resolved"
     ELSE UNCHANGED <<pcCb, pcPromise>>
  /\ UNCHANGED <<pcEntry, pcPc, pcCwdQueue, pcCwdCb, pcFile>>
  /\ UNCHANGED postcssOthers

\* init has run and no callback of it is outstanding.
PostcssQuiescent ==
  /\ pcPc # "start"
  /\ \A f \in DOMAIN pcFile : pcFile[f] \notin {"processing", "mkdir", "written"}
  /\ \A d \in DOMAIN pcDir : ~(pcDir[d] = "awaiting" /\ pcCwdCb[d] >= 1)

InitPostcss ==
  /\ TmIdle /\ JsIdle /\ SgcIdle /\ SghIdle /\ GateIdle /\ HarborIdle
  /\ MountIdle /\ ServiceIdle /\ LegacyIdle /\ SetupIdle
  /\ LateIdle
  /\ sent = <<>>
  /\ pcEntry \in PostcssEntries
  /\ pcPc = "start"
  /\ pcPromise = "pending"
  /\ pcCb = 0 /\ pcQueue = 0
  /\ pcDir = [d \in DOMAIN pcEntry.lists |-> "idle"]
  /\ pcCwdQueue = [d \in DOMAIN pcEntry.lists |-> 0]
  /\ pcCwdCb = [d \in DOMAIN pcEntry.lists |-> 0]
  /\ pcFile = [f \in PathsOf(pcEntry) |-> "idle"]

NextPostcss ==
  \/ \E skip \in [PathsOf(pcEntry) -> BOOLEAN] : PostcssInit(skip)
  \/ \E f \in PathsOf(pcEntry), ok \in BOOLEAN : PostcssProcessed(f, ok)
  \/ \E f \in PathsOf(pcEntry), ok \in BOOLEAN : PostcssDirectoryMade(f, ok)
  \/ \E f \in PathsOf(pcEntry) : PostcssFileCounted(f)
  \/ \E d \in DOMAIN pcEntry.lists : PostcssDirectoryCounted(d)

SpecPostcss == InitPostcss /\ [][NextPostcss]_vars

\* ------------------------------------------- BaseService.resolve / reject
MaxOps == 3

\* this.tooling: without a TaskManager, with a TaskManager that has no
\* resolve, or with the TaskManager.
Toolings == {"none", "noResolve", "full"}

ServiceMethods == {"resolve", "resolveTrue", "reject"}

\* resolve(exit): the calls made on the TaskManager.
ResolveCalls(tooling, name, exit) ==
  IF tooling = "full" THEN <<ServiceResolve(name, exit)>> ELSE <<>>

RejectWithoutArgument(method) ==
  IF method = "resolveTrue" THEN "true" ELSE "undefined"

\* The argument resolve receives for each method: reject() is
\* this.resolve(true).
ExitOf(method) == IF method = "resolve" THEN "undefined" ELSE "true"

serviceOthers == <<tmVars, jsVars, sgcVars, sghVars, gateVars, harborVars,
                   mountVars, postcssVars, legacyVars, setupVars,
                 lateVars>>

\* One call of resolve(), resolve(true) or reject() on the service.
ServiceCall(method) ==
  /\ Len(svOps) < MaxOps
  /\ svOps' = Append(svOps, method)
  /\ LET made == ResolveCalls(svTooling, svName, ExitOf(method))
     IN /\ sent' = sent \o made
        /\ svWarnings' = IF made = <<>> THEN svWarnings + 1 ELSE svWarnings
  /\ UNCHANGED <<svName, svTooling>>
  /\ UNCHANGED serviceOthers

InitService ==
  /\ TmIdle /\ JsIdle /\ SgcIdle /\ SghIdle /\ GateIdle /\ HarborIdle
  /\ MountIdle /\ PostcssIdle /\ LegacyIdle /\ SetupIdle
  /\ LateIdle
  /\ sent = <<>>
  /\ svName \in Units
  /\ svTooling \in Toolings
  /\ svOps = <<>>
  /\ svWarnings = 0

NextService == \E method \in ServiceMethods : ServiceCall(method)

SpecService == InitService /\ [][NextService]_vars

\* ------------------------------------------------ Harbor.init (bin/Harbor)
MaxTasks == 3

\* The names a task argument can hold: the task methods of the class, its
\* method init, one of the properties the constructor sets, and a name
\* that is no member.
LegacyTasks ==
  {"clean", "sync", "stylesheets", "javascripts", "serve", "init", "Cleaner",
   "other"}

\* typeof this[name] === 'function': true of every method, init included,
\* false of a property that holds an object and of a name that is no member.
IsTask(name) == name \notin {"Cleaner", "other"}

\* The awaits inside a task method: stylesheets awaits the init of
\* SassCompiler, PostcssCompiler and StyleOptimizer in turn, the other
\* methods return (javascripts: throw) at once.  init called as a task
\* reads the same arguments and calls itself again until the stack is
\* exhausted; of these nested calls the log keeps the outermost only.
Awaits(name) == IF name = "stylesheets" THEN 3 ELSE 0

\* The log of one forEach callback up to its first await.
TaskEntered(i, name) ==
  IF ~IsTask(name) THEN <<>>
  ELSE IF Awaits(name) = 0
       THEN <<[task |-> i, ev |-> "start"], [task |-> i, ev |-> "end"]>>
       ELSE <<[task |-> i, ev |-> "start"]>>

RECURSIVE ForEachLog(_, _)
ForEachLog(tasks, i) ==
  IF i > Len(tasks) THEN <<>>
  ELSE TaskEntered(i, tasks[i]) \o ForEachLog(tasks, i + 1)

legacyOthers == <<tmVars, sent, jsVars, sgcVars, sghVars, gateVars,
                  harborVars, mountVars, postcssVars, serviceVars, setupVars,
                 lateVars>>

\* init(): tasks.forEach(async name => ...) calls every callback in turn;
\* each runs up to its await this[name](config) and forEach goes on.
LegacyInit ==
  /\ lgPc = "start"
  /\ lgPc' = "looped"
  /\ lgLog' = ForEachLog(lgTasks, 1)
  /\ lgStage' = [i \in DOMAIN lgTasks |->
                   IF IsTask(lgTasks[i]) /\ Awaits(lgTasks[i]) > 0 THEN 1 ELSE 0]
  /\ UNCHANGED lgTasks
  /\ UNCHANGED legacyOthers

\* One awaited init inside a running task settles; after the last one the
\* task method returns.
LegacyAwaited(i) ==
  /\ lgPc = "looped"
  /\ lgStage[i] > 0
  /\ IF lgStage[i] < Awaits(lgTasks[i])
     THEN lgStage' = [lgStage EXCEPT ![i] = @ + 1] /\ UNCHANGED lgLog
     ELSE /\ lgStage' = [lgStage EXCEPT ![i] = 0]
          /\ lgLog' = Append(lgLog, [task |-> i, ev |-> "end"])
  /\ UNCHANGED <<lgTasks, lgPc>>
  /\ UNCHANGED legacyOthers

InitLegacy ==
  /\ TmIdle /\ JsIdle /\ SgcIdle /\ SghIdle /\ GateIdle /\ HarborIdle
  /\ MountIdle /\ PostcssIdle /\ ServiceIdle /\ SetupIdle
  /\ LateIdle
  /\ sent = <<>>
  /\ lgTasks \in SeqsUpTo(LegacyTasks, MaxTasks)
  /\ lgPc = "start"
  /\ lgLog = <<>>
  /\ lgStage = [i \in DOMAIN lgTasks |-> 0]

NextLegacy ==
  \/ LegacyInit
  \/ \E i \in DOMAIN lgTasks : LegacyAwaited(i)

SpecLegacy == InitLegacy /\ [][NextLegacy]_vars

\* ------------------------------------- StyleguideCompiler.setupDataEntry
MaxSources == 2

\* A data source of a story: a .js or .cjs module with a default export,
\* one without, one whose import fails; a JSON file, one that does not
\* parse, one that cannot be read.
SourceKinds ==
  {"module", "moduleNoDefault", "moduleFails", "json", "jsonInvalid",
   "unreadable"}

\* path.extname(sourcePath) is .js or .cjs
IsModule(kind) == kind \in {"module", "moduleNoDefault", "moduleFails"}

\* setupDataEntry once the import or the readFile has settled: whether
\* cb() is called.  The then callback of import() calls it only for a
\* default export and has no catch; the readFile callback calls it after
\* its try and catch.
CallsBack(kind) == IF IsModule(kind) THEN kind = "module" ELSE TRUE

DataOf(sources) ==
  {<<s, i>> : s \in DOMAIN sources, i \in 1..MaxSources} \cap
  {d \in (DOMAIN sources) \X (1..MaxSources) : d[2] <= Len(sources[d[1]])}

setupOthers == <<tmVars, sent, jsVars, sgcVars, sghVars, gateVars,
                 harborVars, mountVars, postcssVars, serviceVars, legacyVars,
                 lateVars>>

\* main.cjs is unlinked if present and written.
WriteMain == smMain' = "written"

\* setupMain(cwd) up to its await: it returns at once when the entry is no
\* object, goes on to write main.cjs when there is no story, and otherwise
\* calls setupDataEntry for every source of every story.
SetupMain ==
  /\ smPc = "start"
  /\ IF ~smHasEntry
     THEN smPc' = "returned" /\ UNCHANGED <<smData, smMain>>
     ELSE IF smSources = <<>>
          THEN smPc' = "done" /\ WriteMain /\ UNCHANGED smData
          ELSE /\ smPc' = "awaiting"
               /\ smData' = [d \in DOMAIN smData |-> "loading"]
               /\ UNCHANGED smMain
  /\ UNCHANGED <<smHasEntry, smSources>>
  /\ UNCHANGED setupOthers

\* The import or the readFile of one source settles.
SetupDataEntry(d) ==
  /\ smPc = "awaiting"
  /\ smData[d] = "loading"
  /\ smData' = [smData EXCEPT ![d] =
                  IF CallsBack(smSources[d[1]][d[2]]) THEN "settled"
                  ELSE "pending"]
  /\ UNCHANGED <<smHasEntry, smSources, smPc, smMain>>
  /\ UNCHANGED setupOthers

\* setupMain after await Promise.all(...): main.cjs is written.
SetupMainWritten ==
  /\ smPc = "awaiting"
  /\ \A d \in DOMAIN smData : smData[d] = "settled"
  /\ smPc' = "done"
  /\ WriteMain
  /\ UNCHANGED <<smHasEntry, smSources, smData>>
  /\ UNCHANGED setupOthers

\* setupMain has been called and nothing it started is outstanding.
SetupQuiescent ==
  /\ smPc \in {"awaiting", "done"}
  /\ \A d \in DOMAIN smData : smData[d] # "loading"
  /\ smPc = "awaiting" => \E d \in DOMAIN smData : smData[d] = "pending"

InitSetup ==
  /\ TmIdle /\ JsIdle /\ SgcIdle /\ SghIdle /\ GateIdle /\ HarborIdle
  /\ MountIdle /\ PostcssIdle /\ ServiceIdle /\ LegacyIdle
  /\ LateIdle
  /\ sent = <<>>
  /\ smHasEntry \in BOOLEAN
  /\ smSources \in SeqsUpTo(SeqsUpTo(SourceKinds, MaxSources), MaxStories)
  /\ smPc = "start"
  /\ smData = [d \in DataOf(smSources) |-> "idle"]
  /\ smMain = "unwritten"

NextSetup ==
  \/ SetupMain
  \/ \E d \in DOMAIN smData : SetupDataEntry(d)
  \/ SetupMainWritten

SpecSetup == InitSetup /\ [][NextSetup]_vars

\* ------------------------------- StyleguideHelper.useTitle and useAlias
MaxCalls == 3

\* this.config.options: sep "" stands for an unset separator.
HelperOptions ==
  [structuredTitle : BOOLEAN, sep : {"", "__"}, disableAlias : BOOLEAN]

\* The directories between THEME_SRC and the source that are no prefix of
\* its basename, and the module name, both in pascal case.
TitleDirs == {<<>>, <<"Button">>}
ModuleNames == {"Button", "Card", "2"}

\* The sources handed to useAlias.
AliasSources == {[dir |-> "components", base |-> "button.twig"]}

\* this.config.options.sep || ' / '
Separator(options) == IF options.sep = "" THEN " / " ELSE options.sep

RECURSIVE Join(_, _)
Join(list, sep) ==
  IF list = <<>> THEN ""
  ELSE IF Len(list) = 1 THEN list[1]
  ELSE list[1] \o sep \o Join(Tail(list), sep)

\* useTitle before the duplicate test: the module name, prefixed by the
\* directories when structuredTitle is set.
StructuredTitle(dirs, moduleName, options) ==
  IF dirs # <<>> /\ options.structuredTitle
  THEN Join(dirs, Separator(options)) \o Separator(options) \o moduleName
  ELSE moduleName

\* this.titles after the call.
TitlesAfter(titles, result) ==
  [t \in DOMAIN titles \cup {result} |->
     IF t = result
     THEN (IF result \in DOMAIN titles THEN titles[result] + 1 ELSE 1)
     ELSE titles[t]]

\* The title useTitle returns: unchanged when this.titles does not hold
\* it, otherwise with '__' and the new count appended.
UseTitle(titles, result) ==
  IF result \notin DOMAIN titles THEN result
  ELSE result \o "__" \o ToString(titles[result] + 1)

\* (!force, options && options.disableAlias): the comma operator yields
\* its right operand.
RelativeWanted(force, options) == options.disableAlias

\* useAlias(source, force) with no alias configured.
UseAlias(source, force, options) ==
  IF RelativeWanted(force, options) THEN "./" \o source.base
  ELSE "@theme/" \o source.dir \o "/" \o source.base

helperOthers == <<tmVars, sent, jsVars, sgcVars, sghVars, gateVars,
                  harborVars, mountVars, postcssVars, serviceVars, legacyVars,
                  setupVars, builderVars, entryVars>>

HelperCalls == Len(stReturned) + Len(stAlias)

\* One call of useTitle(source).
HelperUseTitle(dirs, moduleName) ==
  /\ HelperCalls < MaxCalls
  /\ LET result == StructuredTitle(dirs, moduleName, stOptions)
     IN /\ stTitles' = TitlesAfter(stTitles, result)
        /\ stReturned' = Append(stReturned, UseTitle(stTitles, result))
  /\ UNCHANGED <<stOptions, stAlias>>
  /\ UNCHANGED helperOthers

\* One call of useAlias(source, force).
HelperUseAlias(source, force) ==
  /\ HelperCalls < MaxCalls
  /\ stAlias' = Append(stAlias, [source |-> source, force |-> force,
                                 result |-> UseAlias(source, force, stOptions)])
  /\ UNCHANGED <<stOptions, stTitles, stReturned>>
  /\ UNCHANGED helperOthers

InitHelper ==
  /\ TmIdle /\ JsIdle /\ SgcIdle /\ SghIdle /\ GateIdle /\ HarborIdle
  /\ MountIdle /\ PostcssIdle /\ ServiceIdle /\ LegacyIdle /\ SetupIdle
  /\ BuilderIdle /\ EntryIdle
  /\ sent = <<>>
  /\ stOptions \in HelperOptions
  /\ stTitles = <<>>
  /\ stReturned = <<>>
  /\ stAlias = <<>>

NextHelper ==
  \/ \E dirs \in TitleDirs, moduleName \in ModuleNames :
       HelperUseTitle(dirs, moduleName)
  \/ \E source \in AliasSources, force \in BOOLEAN :
       HelperUseAlias(source, force)

SpecHelper == InitHelper /\ [][NextHelper]_vars

\* ------------------------------------- StyleguideCompiler.extendBuilder
MaxExtensions == 2

\* The modules found under the Twing builder directory and under the
\* configured builderDirectory.
DefaultExtensions ==
  {[dir |-> "Twing", file |-> "date.cjs"],
   [dir |-> "Twing", file |-> "myFilter.cjs"]}

CustomExtensions ==
  {[dir |-> "custom", file |-> "date.cjs"],
   [dir |-> "custom", file |-> "my_filter.cjs"],
   [dir |-> "custom", file |-> "my-filter.cjs"],
   [dir |-> "custom", file |-> "other.cjs"]}

\* defineBuilderExtensionName: snakeCase of the basename without its
\* extension.
DefineBuilderExtensionName(source) ==
  CASE source.file = "date.cjs" -> "date"
    [] source.file \in {"myFilter.cjs", "my_filter.cjs", "my-filter.cjs"} ->
         "my_filter"
    [] OTHER -> "other"

ExtendBuilderKeepsAll(initial, proposal) == initial \o proposal

\* extendBuilder(initial, proposal)
ExtendBuilder(initial, proposal) ==
  LET names == {DefineBuilderExtensionName(initial[i]) : i \in DOMAIN initial}
      keeps(commit) == DefineBuilderExtensionName(commit) \notin names
  IN initial \o SelectSeq(proposal, keeps)

builderOthers == <<tmVars, sent, jsVars, sgcVars, sghVars, gateVars,
                   harborVars, mountVars, postcssVars, serviceVars,
                   legacyVars, setupVars, helperVars, entryVars>>

\* One call of extendBuilder.
ExtendBuilderCall ==
  /\ ebPc = "start"
  /\ ebPc' = "done"
  /\ ebResult' = ExtendBuilder(ebInitial, ebProposal)
  /\ UNCHANGED <<ebInitial, ebProposal>>
  /\ UNCHANGED builderOthers

InitBuilder ==
  /\ TmIdle /\ JsIdle /\ SgcIdle /\ SghIdle /\ GateIdle /\ HarborIdle
  /\ MountIdle /\ PostcssIdle /\ ServiceIdle /\ LegacyIdle /\ SetupIdle
  /\ HelperIdle /\ EntryIdle
  /\ sent = <<>>
  /\ ebInitial \in {l \in SeqsUpTo(DefaultExtensions, MaxExtensions) :
                      NoDuplicates(l)}
  /\ ebProposal \in {l \in SeqsUpTo(CustomExtensions, MaxExtensions) :
                       NoDuplicates(l)}
  /\ ebPc = "start"
  /\ ebResult = <<>>

NextBuilder == ExtendBuilderCall

SpecBuilder == InitBuilder /\ [][NextBuilder]_vars

\* ----------------------------------------------- BaseService.defineEntry
\* this.config.entry: missing, a value without keys of its own (a number,
\* true), a string (its keys are the indices of its characters) or a
\* mapping; per key the sizes of the files its glob matches, 0 standing
\* for an empty file.
EntryConfigs ==
  {[kind |-> "missing", patterns |-> <<>>],
   [kind |-> "scalar", patterns |-> <<>>]}
    \cup [kind : {"object"},
          patterns : SeqsUpTo(SeqsUpTo({0, 1}, MaxPaths), MaxCwd)]
    \cup [kind : {"string"},
          patterns : SeqsUpTo(SeqsUpTo({0, 1}, MaxPaths), MaxCwd) \ {<<>>}]

\* sync(p).filter(...): the matched files of one key that are not empty.
Sized(config, k) ==
  SelectSeq([j \in DOMAIN config.patterns[k] |-> <<k, j>>],
            LAMBDA f : config.patterns[f[1]][f[2]] > 0)

\* defineEntry(): this.entry afterwards.
DefineEntry(config, entry) ==
  IF config.kind = "missing" \/ NotInstanceOfObject(config) THEN entry
  ELSE IF config.patterns = <<>> THEN entry
  ELSE [defined |-> TRUE,
        lists |-> SelectSeq([k \in DOMAIN config.patterns |-> Sized(config, k)],
                            LAMBDA list : Len(list) > 0)]

entryOthers == <<tmVars, sent, jsVars, sgcVars, sghVars, gateVars,
                 harborVars, mountVars, postcssVars, serviceVars, legacyVars,
                 setupVars, helperVars, builderVars>>

\* One call of defineEntry.
DefineEntryCall ==
  /\ dePc = "start"
  /\ dePc' = "done"
  /\ deEntry' = DefineEntry(deConfig, deEntry)
  /\ UNCHANGED deConfig
  /\ UNCHANGED entryOthers

InitEntry ==
  /\ TmIdle /\ JsIdle /\ SgcIdle /\ SghIdle /\ GateIdle /\ HarborIdle
  /\ MountIdle /\ PostcssIdle /\ ServiceIdle /\ LegacyIdle /\ SetupIdle
  /\ HelperIdle /\ BuilderIdle
  /\ sent = <<>>
  /\ deConfig \in EntryConfigs
  /\ dePc = "start"
  /\ deEntry = NoEntry

NextEntry == DefineEntryCall

SpecEntry == InitEntry /\ [][NextEntry]_vars

\* ---------------------------------------------------------------- claims

\* C1: one invocation of JsOptimizer.init signals the TaskManager exactly
\* once: never more than one call of resolve or reject, and exactly one
\* when nothing of the invocation is outstanding any more.
C1_JsSignalsExactlyOnce ==
  /\ Len(sent) <= 1
  /\ JsSettled => Len(sent) = 1
\* C2: one invocation of StyleguideCompiler.init produces exactly one
\* top-level signal, in every environment and for every sequence of events
\* of the child process: never more than one, and exactly one when the
\* child emits nothing further and no callback is outstanding.
C2_SgcSignalsExactlyOnce ==
  /\ Len(sent) <= 1
  /\ SgcSettled => Len(sent) = 1

\* C3: one invocation of StyleguideHelper.init over a list of entries
\* signals exactly once: never more than one signal, and exactly one when
\* nothing of the invocation is outstanding any more, also after a write
\* that threw.
C3_SghSignalsExactlyOnce ==
  shEntry.defined =>
    /\ Len(sent) <= 1
    /\ ShSettled => Len(sent) = 1

\* C4: within one publish cycle the handler of every subscription is invoked
\* at most once, also when the request names several of its hooks or
\* repeats a hook name.
C4_InvokedAtMostOnce == \A u \in Units : invoked[u] <= 1

\* A cycle whose request reaches one unit through two requested hooks.
C4_Witness ==
  /\ pubState = "running"
  /\ \E u \in Units : invoked[u] = 1 /\ Count(Gather(pubCat, pubReq), u) >= 2
  /\ \E i, j \in DOMAIN pubReq : i # j /\ pubReq[i] = pubReq[j]

\* C5: completed and exceptions are disjoint and hold no name twice; a unit
\* that signalled success is in completed only, one that signalled failure
\* in exceptions only; when publish returns, their union is exactly the set
\* of subscriptions the request matches.
C5_ResultPartition ==
  /\ Range(completed) \cap Range(exceptions) = {}
  /\ NoDuplicates(completed) /\ NoDuplicates(exceptions)
  /\ \A u \in Units :
       /\ verb[u] = "resolve" =>
            u \in Range(completed) /\ u \notin Range(exceptions)
       /\ verb[u] = "reject" =>
            u \in Range(exceptions) /\ u \notin Range(completed)
  /\ Recorded \subseteq MatchedUnits(pubCat, pubReq)
  /\ pubState = "returned" => Recorded = MatchedUnits(pubCat, pubReq)

\* A returned cycle with a unit in each of the two sets.
C5_Witness ==
  /\ pubState = "returned"
  /\ completed # <<>> /\ exceptions # <<>>
  /\ \E u \in Units : verb[u] = "reject"

\* C6: publish has returned only if every matched handler was invoked and
\* has signalled; a failure of one unit leaves the others invoked and
\* awaited, and while a matched unit has not signalled the publish is
\* still pending.
C6_ReturnsAfterAll ==
  /\ pubState \in {"running", "returned"} =>
       \A u \in MatchedUnits(pubCat, pubReq) : invoked[u] >= 1
  /\ pubState = "returned" =>
       \A u \in MatchedUnits(pubCat, pubReq) : sigCount[u] >= 1
  /\ (err = "none" /\ \E u \in MatchedUnits(pubCat, pubReq) : sigCount[u] = 0)
       => pubState = "running"

\* One unit has failed, a sibling has not signalled yet, publish is pending.
C6_Witness ==
  /\ pubState = "running"
  /\ exceptions # <<>>
  /\ \E u \in Range(matched) : sigCount[u] = 0

\* C7: a publish whose request matches no subscription of the category (the
\* empty request included) has returned an empty result, has invoked no
\* handler and has not thrown.
C7_NoMatchEmptyResult ==
  (pubState # "idle" /\ MatchedUnits(pubCat, pubReq) = {}) =>
     /\ pubState = "returned"
     /\ err = "none"
     /\ completed = <<>> /\ exceptions = <<>>
     /\ \A u \in Units : invoked[u] = 0

\* A non-empty request that matches nothing although the other category
\* holds a subscriber of the requested hook.
C7_Witness ==
  /\ pubState = "returned"
  /\ pubReq # <<>>
  /\ MatchedUnits(pubCat, pubReq) = {}
  /\ \E c \in Categories : MatchedUnits(c, pubReq) # {}

\* C8: what resolve returned for the category and request of a cycle is
\* exactly the set of subscriptions of that category whose hooks intersect
\* the request, each once; publish is started with every request on
\* every registry.
C8_ResolveExact ==
  pubState \in {"running", "returned"} =>
    /\ matched = Resolve(pubCat, pubReq)
    /\ Range(matched) = MatchedUnits(pubCat, pubReq)
    /\ NoDuplicates(matched)

\* One requested hook fans out to two subscriptions while the other
\* category holds a further subscriber of that hook.
C8_Witness ==
  /\ pubState = "running"
  /\ Len(pubReq) = 1
  /\ Len(matched) = 2
  /\ \E c \in Categories \ {pubCat} :
       MatchedUnits(c, pubReq) \ Range(matched) # {}

\* C9: a second signal of a unit within one cycle raises DoubleSignalError
\* and leaves the result sets as they were.
C9_SecondSignalRejected ==
  [][\A u \in Units :
       (sigCount[u] >= 1 /\ sigCount'[u] = sigCount[u] + 1) =>
          /\ err' = "DoubleSignalError"
          /\ completed' = completed
          /\ exceptions' = exceptions]_vars

\* A unit recorded as completed that signalled again.
C9_Witness ==
  /\ err = "DoubleSignalError"
  /\ \E u \in Units : sigCount[u] = 2 /\ u \in Range(completed)

\* C10: a subscribe of a name the category already holds raises
\* DuplicateNameError and leaves the registry as it was; a name held only by
\* the other category is registered.
C10_DuplicateName ==
  [][\A cat \in Categories, name \in Units :
       Subscribe(cat, name) =>
          IF name \in RegisteredNames(cat)
          THEN /\ err' = "DuplicateNameError"
               /\ subs' = subs
               /\ hookMap' = hookMap
          ELSE /\ err' = "none"
               /\ subs'[cat] =
                    Append(subs[cat],
                           [name |-> name,
                            hooks |-> {name} \cup
                              Range(MountHooks(name, Config[cat][name]))])
               /\ \A c \in Categories \ {cat} : subs'[c] = subs[c]]_vars

\* Watcher is registered as a worker and as a plugin, and a further
\* registration of it was refused.
C10_Witness ==
  /\ err = "DuplicateNameError"
  /\ "Watcher" \in RegisteredNames("workers")
  /\ "Watcher" \in RegisteredNames("plugins")

\* Whether the unit's accepted environments are a non-empty list that lacks
\* the environment subscribe read.
GatedOut ==
  /\ thisOptions.defined
  /\ thisOptions.list # <<>>
  /\ gSubEnv \notin Range(thisOptions.list)

\* C11: a unit whose acceptedEnvironments is non-empty and lacks the current
\* environment is subscribed with the stub; publishing its hook never
\* invokes init, the stub calls resolve() once per publish, and the unit
\* never signals a failure.
C11_GatedUnitStubbed ==
  (gHandler \notin {"unsubscribed", "none"} /\ GatedOut) =>
     /\ gHandler = "stub"
     /\ gInitCalls = 0
     /\ gStubCalls = gPublishes
     /\ Len(sent) = gPublishes
     /\ \A i \in DOMAIN sent : sent[i] = ServiceResolve(GateUnit, "undefined")

\* A unit accepted for production only, subscribed under development, whose
\* hook has been published.
C11_Witness ==
  /\ gHandler = "stub"
  /\ thisOptions.list = <<"production">>
  /\ gSubEnv = "development"
  /\ gPublishes >= 1
  /\ Len(sent) = gPublishes

\* C12: a unit built without options, with options that lack
\* acceptedEnvironments, or with an empty acceptedEnvironments list is
\* accepted in every environment and has its real init subscribed; a single
\* string acceptedEnvironments counts as the list of that one value.
C12_UngatedAcceptedEverywhere ==
  /\ (~gOptions.given \/ gOptions.accepted = "absent" \/ gOptions.list = <<>>) =>
        /\ \A e \in GateEnvironments : InitIfAccepted(thisOptions, e)
        /\ gHandler \notin {"unsubscribed", "none"} => gHandler = "init"
  /\ gOptions.accepted = "string" =>
        /\ thisOptions = [defined |-> TRUE, list |-> gOptions.list]
        /\ gHandler \notin {"unsubscribed", "none"} =>
             (gHandler = "init" <=> gSubEnv = gOptions.list[1])

\* A unit with the empty list, subscribed and invoked.
C12_Witness ==
  /\ gOptions.accepted = "array" /\ gOptions.list = <<>>
  /\ gHandler = "init"
  /\ gInitCalls >= 1

\* C13: the choice between init and the stub is made when subscribe is
\* called and stands for every later publish: each publish invokes the
\* handler chosen from the environment subscribe read, whatever the
\* environment value is by then.
C13_ChosenOnceAtSubscribe ==
  gHandler \notin {"unsubscribed", "none"} =>
     /\ gHandler = ChosenHandler(thisOptions, gSubEnv)
     /\ gHandler = "init" => gInitCalls = gPublishes /\ gStubCalls = 0
     /\ gHandler = "stub" => gStubCalls = gPublishes /\ gInitCalls = 0

\* A publish made after the environment changed to a value for which
\* subscribe would have chosen the other handler.
C13_Witness ==
  /\ gPublishes >= 1
  /\ gHandler = "stub"
  /\ gPubEnv # gSubEnv
  /\ ChosenHandler(thisOptions, gPubEnv) = "init"

\* The validateResult calls of the run that saw a non-empty exceptions list.
FailedValidations == {i \in DOMAIN validated : validated[i].failed}

PluginEvents == {i \in DOMAIN trace : trace[i].cat = "plugins"}

\* C14: when the loaded environment is not development, a validateResult
\* call that sees a non-empty exceptions list, of the worker publish or of
\* the plugin publish, throws and Harbor.init fails; after a failing worker
\* cycle no plugin is mounted and no plugin publish is issued.
C14_StrictOutsideDevelopment ==
  hEnv.loaded # "development" =>
    \A i \in FailedValidations :
       /\ validated[i].threw
       /\ hPc = "failed"
       /\ i = Len(validated)
       /\ validated[i].type = "workers" => PluginEvents = {}

\* A production run whose worker publish returned a failed unit next to a
\* completed one, with an argument that names a plugin hook.
C14_Witness ==
  /\ hEnv.loaded = "production"
  /\ hPc = "failed"
  /\ Len(validated) = 1
  /\ validated[1].type = "workers" /\ validated[1].failed /\ validated[1].done
  /\ argv.args["JsCompiler"] = "true"

\* C15: when the environment loaded by Environment.define is development, a
\* non-empty exceptions list of the worker publish does not abort:
\* validateResult does not throw and init goes on to the plugin phase.
C15_LenientInDevelopment ==
  hEnv.loaded = "development" =>
    \A i \in FailedValidations :
       validated[i].type = "workers" =>
          /\ ~validated[i].threw
          /\ hPc \in {"args", "pluginsMounted", "plugins", "done"}

\* C16: in a development environment validateResult logs a warning for
\* every result with a non-empty exceptions list, whether or not completed
\* is non-empty too.
C16_FailuresLoggedInDevelopment ==
  hEnv.loaded = "development" =>
    \A i \in FailedValidations : validated[i].log = "warning"

Publishes(cat) ==
  {i \in DOMAIN trace : trace[i].ev = "publish" /\ trace[i].cat = cat}

Mounts(cat) ==
  {i \in DOMAIN trace : trace[i].ev = "mount" /\ trace[i].cat = cat}

Validations(cat) ==
  {i \in DOMAIN trace : trace[i].ev = "validate" /\ trace[i].cat = cat}

\* C17: one run of Harbor.init issues at most one worker publish and at
\* most one plugin publish, and the plugin publish starts only after the
\* worker publish, if there was one, has returned and been validated.
C17_OnePublishPerCategory ==
  /\ Cardinality(Publishes("workers")) <= 1
  /\ Cardinality(Publishes("plugins")) <= 1
  /\ \A p \in Publishes("plugins"), w \in Publishes("workers") :
        \E v \in Validations("workers") : w < v /\ v < p
  /\ Publishes("plugins") # {} => ~(pubState = "running" /\ pubCat = "workers")

\* A development run in which a worker failed and the plugin publish is
\* under way.
C17_Witness ==
  /\ Publishes("workers") # {} /\ Publishes("plugins") # {}
  /\ validated # <<>> /\ validated[1].failed
  /\ pubState = "running" /\ pubCat = "plugins"

\* The arguments with a truthy value whose name, cut at '::', is a hook
\* some configured plugin declares.
NamedPluginArgs ==
  {a \in ArgNames :
     /\ argv.args[a] = "true"
     /\ ArgPrefix(a) \in
          UNION {DeclaredHooks(Config["plugins"][u]) : u \in Units}}

\* init has decided about the plugin cycle.
PluginDecisionMade ==
  \/ hPc \in {"pluginsMounted", "plugins", "done"}
  \/ hPc = "failed" /\ validated[Len(validated)].type = "plugins"

NamedWorkerHooks ==
  {HookPrefix(h) : h \in {x \in HookNames : hookMap["workers"][x] # <<>>}}
    \cap argv.customArgs

C21_HookListHoldsName ==
  \A i \in DOMAIN calls :
     calls[i].call = "subscribe" => calls[i].unit \in Range(calls[i].hooks)

\* The calls mount has made on one unit.
CallsOn(u) == SelectSeq(calls, LAMBDA c : c.unit = u)

\* C22: for every unit mount processes, defineConfig, defineEntry and
\* subscribe are each called once, in that order, and all of it before the
\* publish of the unit's category begins.
C22_MountCallOrder ==
  /\ \A u \in Units :
        LET made == [i \in DOMAIN CallsOn(u) |-> CallsOn(u)[i].call]
        IN /\ Len(made) <= 3
           /\ made = SubSeq(<<"defineConfig", "defineEntry", "subscribe">>,
                            1, Len(made))
  /\ mPub => \A u \in Range(InstanceOrder) : Len(CallsOn(u)) = 3

\* The three units are mounted and the publish of their category has begun.
C22_Witness ==
  /\ mPub
  /\ Len(calls) = 9
  /\ calls[9].call = "subscribe"

\* this.entry holds no input item: it was never defined, or every list of
\* paths was empty and filtered out.
EmptyEntry(entry) == ~entry.defined \/ entry.lists = <<>>

\* C23: a unit whose configured entry yields no input item signals success,
\* exactly once, on its next init and does no work; for JsOptimizer.init and
\* for StyleguideHelper.init.
C23_EmptyEntrySignalsSuccess ==
  /\ (EmptyEntry(jsEntry) /\ JsSettled) =>
        sent = <<ServiceResolve("JsOptimizer", "undefined")>>
  /\ (EmptyEntry(shEntry) /\ ShSettled) =>
        sent = <<ServiceResolve("StyleguideHelper", "undefined")>>

\* C24: the promise PostCssCompiler.init returned is resolved for every
\* configuration once nothing is outstanding, also for an entry mapping
\* without keys and for an entry that is no object: it does not stay pending
\* when there is nothing to compile.
C24_InitResolvesWhenNothingToDo ==
  (PostcssQuiescent /\ \A f \in DOMAIN pcFile : pcFile[f] # "stuck") =>
     pcPromise = "resolved"

\* C27: the counters of the fan-in neither under- nor over-count: for a
\* non-empty list the callback of processCwd, and that of init over the
\* base directories, is called once, and then exactly when every item has
\* been skipped or processed and counted, in whatever order they finish.
C27_FanInCountsExactly ==
  /\ \A d \in DOMAIN pcCwdCb :
        pcEntry.lists[d] > 0 =>
           /\ pcCwdCb[d] <= 1
           /\ pcCwdCb[d] = 1 <=>
                \A f \in FilesOf(d) : pcFile[f] \in {"skipped", "counted"}
  /\ (pcPc = "running" /\ Len(pcEntry.lists) > 0) =>
        /\ pcCb <= 1
        /\ pcCb = 1 <=> \A d \in DOMAIN pcDir : pcDir[d] = "done"
        /\ pcCb = 1 <=> pcPromise = "resolved"

\* Two base directories of two files each, one file skipped, the others
\* processed, all counted and the promise of init resolved.
C27_Witness ==
  /\ pcEntry.lists = <<2, 2>>
  /\ pcPromise = "resolved"
  /\ pcCb = 1
  /\ \E f \in DOMAIN pcFile : pcFile[f] = "skipped"
  /\ Cardinality({f \in DOMAIN pcFile : pcFile[f] = "counted"}) = 3

\* C28: the promise of processFile settles on every outcome, a failing
\* postcss run and a destination directory that cannot be made included:
\* its callback is invoked, so that processCwd and init complete.
C28_ProcessFileSettles ==
  (PostcssQuiescent /\ PathsOf(pcEntry) # {} /\ pcPc = "running") =>
     /\ \A f \in DOMAIN pcFile : pcFile[f] \in {"skipped", "counted"}
     /\ pcPromise = "resolved"

\* C25: reject() is resolve(true): each makes exactly one call
\* TaskManager.resolve(name, true) for the service's own name; resolve()
\* without argument reports a success; a service without the TaskManager
\* sends no signal at all.
C25_RejectIsResolveTrue ==
  IF svTooling = "full"
  THEN /\ Len(sent) = Len(svOps)
       /\ \A i \in DOMAIN svOps :
            /\ sent[i].name = svName
            /\ svOps[i] \in {"reject", "resolveTrue"} =>
                 sent[i] = ServiceResolve(svName, "true") /\ Failed(sent[i])
            /\ svOps[i] = "resolve" => ~Failed(sent[i])
  ELSE sent = <<>>

\* reject(), resolve() and resolve(true) called on a service with its
\* TaskManager.
C25_Witness ==
  /\ svTooling = "full"
  /\ svOps = <<"reject", "resolve", "resolveTrue">>
  /\ Len(sent) = 3

\* C26: Harbor.init of bin/Harbor.js runs the requested tasks in order, one
\* after the other: a task of the list does not start before the task
\* before it has finished.
C26_TasksRunInSequence ==
  \A k \in DOMAIN lgLog :
    lgLog[k].ev = "start" =>
      \A j \in 1..(k - 1) :
        (lgLog[j].ev = "start" /\ lgLog[j].task < lgLog[k].task) =>
          \E e \in (j + 1)..(k - 1) :
            lgLog[e] = [task |-> lgLog[j].task, ev |-> "end"]

\* C29: in StyleguideCompiler.init the configuration files of Storybook
\* have been written when the storybook command is launched with exec, for
\* every number of stories: main.cjs is on disk once the child runs.
C29_MainWrittenBeforeLaunch ==
  (sgcChild # "none" /\ sgcHasEntry) => sgcMain = "written"

\* C30: the promise setupDataEntry returns settles for every data source,
\* modules without a default export, failing imports, unreadable files and
\* invalid JSON included, so that setupMain always goes on to write
\* main.cjs.
C30_DataEntrySettles ==
  SetupQuiescent =>
    /\ \A d \in DOMAIN smData : smData[d] = "settled"
    /\ smMain = "written"

C32_PreviousBuildCleared ==
  (sgcEnv = "production" /\ sgcChild # "none") => sgcPrev = 0

\* C33: within one StyleguideHelper instance useTitle never returns the
\* same title twice, over any sequence of calls.
C33_TitlesNeverRepeat == NoDuplicates(stReturned)

\* C34: useAlias with force set to true uses the alias also when
\* disableAlias is set; without force and with disableAlias set it returns
\* the relative path './<basename>'.
C34_ForceUsesAlias ==
  \A i \in DOMAIN stAlias :
    LET call == stAlias[i]
    IN /\ call.force =>
            call.result = "@theme/" \o call.source.dir \o "/" \o call.source.base
       /\ (~call.force /\ stOptions.disableAlias) =>
            call.result = "./" \o call.source.base

\* C35: extendBuilder returns every initial entry, followed by exactly
\* those proposal entries whose extension name differs from the name of
\* every initial entry: no default extension is replaced or duplicated by a
\* custom one of the same name, and the order of both lists is kept.
C35_ExtendBuilderMerges ==
  ebPc = "done" =>
    LET n == Len(ebInitial)
        rest == SubSeq(ebResult, n + 1, Len(ebResult))
        clash(c) == \E i \in DOMAIN ebInitial :
                      DefineBuilderExtensionName(ebInitial[i])
                        = DefineBuilderExtensionName(c)
        kept == {j \in DOMAIN ebProposal : ~clash(ebProposal[j])}
    IN /\ Len(ebResult) >= n
       /\ SubSeq(ebResult, 1, n) = ebInitial
       /\ Len(rest) = Cardinality(kept)
       /\ \A r \in DOMAIN rest : ~clash(rest[r])
       /\ \A j \in kept : \E r \in DOMAIN rest : rest[r] = ebProposal[j]
       /\ \A r1, r2 \in DOMAIN rest :
            r1 < r2 =>
              \E j1, j2 \in kept :
                j1 < j2 /\ ebProposal[j1] = rest[r1] /\ ebProposal[j2] = rest[r2]

\* Two default extensions, and two custom ones of which one has the name
\* of a default one and is dropped.
C35_Witness ==
  /\ ebPc = "done"
  /\ Len(ebInitial) = 2 /\ Len(ebProposal) = 2
  /\ Len(ebResult) = 3

\* C36: after defineEntry this.entry, when set, holds one list per entry
\* pattern that matched, every list non-empty and every file in it of a
\* size above 0; a missing entry configuration, an entry that is no object
\* and an entry mapping without keys leave this.entry as it was.
C36_DefineEntryResult ==
  dePc = "done" =>
    /\ (deConfig.kind # "object" \/ deConfig.patterns = <<>>) =>
          deEntry = NoEntry
    /\ deEntry.defined =>
          \A l \in DOMAIN deEntry.lists :
            /\ deEntry.lists[l] # <<>>
            /\ \A f \in Range(deEntry.lists[l]) :
                 deConfig.patterns[f[1]][f[2]] > 0

\* C37: in Harbor.init of bin/Harbor.js a requested name that is none of
\* the declared tasks (clean, sync, stylesheets, javascripts, serve) runs
\* nothing: no requested name re-enters init or invokes another member of
\* the Harbor object.
C37_OnlyDeclaredTasksRun ==
  \A k \in DOMAIN lgLog :
    lgTasks[lgLog[k].task] \in
      {"clean", "sync", "stylesheets", "javascripts", "serve"}

====
